---- MODULE Spec2Model ----
(***************************************************************************)
(* A model of the Proof-of-Work package (pow) and of the trinary package   *)
(* of iota.go: the bit-sliced nonce search and its goroutines, the batch   *)
(* driver DoPoW, the registry of implementations, and the trit/tryte/int   *)
(* conversions.                                                            *)
(*                                                                         *)
(* The sizes of the ledger format are scaled down (a nonce of NonceTrytes  *)
(* trytes instead of 27, words of WordBits bits instead of 64, and so on), *)
(* keeping the relations between them that the source states: a hash is    *)
(* three nonces long, the Curl state three hashes, the number of rounds is *)
(* odd, the nonce seeds are the low bits of the source's 64-bit constants. *)
(***************************************************************************)
EXTENDS Integers, Sequences, FiniteSets, TLC

(***************************************************************************)
(* Bounds of the model.                                                    *)
(***************************************************************************)
WordBits == 2       \* bit positions of a word (64 in the source: uint64)
NonceTrytes == 3    \* trytes of the nonce field (27 in the ledger format)
HalfRounds == 3     \* NumberOfRounds = 2 * HalfRounds + 1 (odd, as 27 and 81 are)
TxBlocks == 2       \* hash-sized blocks of a transaction (33 in the ledger format)

(***************************************************************************)
(* Constants of the consts and curl packages.                              *)
(***************************************************************************)
TrinaryRadix == 3
MinTritValue == -1
MaxTritValue == 1
NonceTrinarySize == 3 * NonceTrytes
HashTrinarySize == 3 * NonceTrinarySize
StateSize == 3 * HashTrinarySize
NumberOfRounds == 2 * HalfRounds + 1
TransactionTrinarySize == TxBlocks * HashTrinarySize
TryteAlphabet ==
  << "9", "A", "B", "C", "D", "E", "F", "G", "H", "I", "J", "K", "L", "M",
     "N", "O", "P", "Q", "R", "S", "T", "U", "V", "W", "X", "Y", "Z" >>

Lanes == 0 .. (StateSize - 1)
BitPos == 0 .. (WordBits - 1)

\* A comprehension is evaluated once, here, and not again at each application.
Eager(f) == IF f = f THEN f ELSE f

(***************************************************************************)
(* trinary: tables and conversions.                                        *)
(***************************************************************************)
TryteToTritsLUT ==
  << <<0, 0, 0>>, <<1, 0, 0>>, <<-1, 1, 0>>, <<0, 1, 0>>,
     <<1, 1, 0>>, <<-1, -1, 1>>, <<0, -1, 1>>, <<1, -1, 1>>,
     <<-1, 0, 1>>, <<0, 0, 1>>, <<1, 0, 1>>, <<-1, 1, 1>>,
     <<0, 1, 1>>, <<1, 1, 1>>, <<-1, -1, -1>>, <<0, -1, -1>>,
     <<1, -1, -1>>, <<-1, 0, -1>>, <<0, 0, -1>>, <<1, 0, -1>>,
     <<-1, 1, -1>>, <<0, 1, -1>>, <<1, 1, -1>>, <<-1, -1, 0>>,
     <<0, -1, 0>>, <<1, -1, 0>>, <<-1, 0, 0>> >>

ValidTrit(t) == t = -1 \/ t = 0 \/ t = 1

CanTritsToTrytes(trits) == IF Len(trits) = 0 THEN FALSE ELSE Len(trits) % 3 = 0

\* strings.Index(TryteAlphabet, ch): the 0-based place of ch, -1 when absent.
AlphabetIndex(ch) ==
  IF \E k \in 1 .. Len(TryteAlphabet) : TryteAlphabet[k] = ch
  THEN (CHOOSE k \in 1 .. Len(TryteAlphabet) : TryteAlphabet[k] = ch) - 1
  ELSE -1

\* The value an int8 expression is stored as.
WrapInt8(x) == ((x + 128) % 256) - 128

\* j of TritsToTrytes without the step `if j < 0 { j += len(TryteAlphabet) }`.
TryteIndexUnadjusted(trits, i) ==
  WrapInt8(WrapInt8(trits[3 * (i - 1) + 1] + WrapInt8(trits[3 * (i - 1) + 2] * 3))
             + WrapInt8(trits[3 * (i - 1) + 3] * 9))

\* j of TritsToTrytes for the tryte i (1-based): int8 arithmetic on the trits.
TryteIndex(trits, i) ==
  LET j == WrapInt8(WrapInt8(trits[3 * (i - 1) + 1] + WrapInt8(trits[3 * (i - 1) + 2] * 3))
                      + WrapInt8(trits[3 * (i - 1) + 3] * 9))
  IN IF j < 0 THEN WrapInt8(j + Len(TryteAlphabet)) ELSE j

\* The result of TritsToTrytes: [trytes, err]. An index outside TryteAlphabet
\* is a run-time panic of the function itself (err "panic").
TritsToTrytes(trits) ==
  IF ~CanTritsToTrytes(trits)
  THEN [trytes |-> << >>, err |-> "ErrInvalidTritsLength"]
  ELSE IF \E i \in 1 .. (Len(trits) \div 3) :
            TryteIndex(trits, i) < 0 \/ TryteIndex(trits, i) >= Len(TryteAlphabet)
  THEN [trytes |-> << >>, err |-> "panic"]
  ELSE [trytes |-> [i \in 1 .. (Len(trits) \div 3) |-> TryteAlphabet[TryteIndex(trits, i) + 1]],
        err |-> "nil"]

\* Panics (result "panic") when TritsToTrytes fails.
MustTritsToTrytes(trits) ==
  LET r == TritsToTrytes(trits)
  IN IF r.err # "nil" THEN "panic" ELSE r.trytes

ValidTrytes(trytes) ==
  Len(trytes) > 0 /\ \A i \in 1 .. Len(trytes) : AlphabetIndex(trytes[i]) >= 0

TrytesToTrits(trytes) ==
  IF ~ValidTrytes(trytes)
  THEN [trits |-> << >>, err |-> "ErrInvalidTrytes"]
  ELSE [trits |->
          [k \in 1 .. (3 * Len(trytes)) |->
             TryteToTritsLUT[AlphabetIndex(trytes[((k - 1) \div 3) + 1]) + 1]
                            [((k - 1) % 3) + 1]],
        err |-> "nil"]

MustTrytesToTrits(trytes) ==
  LET r == TrytesToTrits(trytes)
  IN IF r.err # "nil" THEN "panic" ELSE r.trits

(***************************************************************************)
(* curl: the sponge, as the specification describes it.                    *)
(***************************************************************************)
IndexStep == (StateSize - 1) \div 2

\* Indices[0] = 0, Indices[j+1] = Indices[j] + (364 if Indices[j] < 365 else -365).
Indices(j) == (j * IndexStep) % StateSize

\* f(a, b) = b - a, clamped to {-1, 0, +1}.
SBox(a, b) ==
  LET d == b - a
  IN IF d > 1 THEN 1 ELSE IF d < -1 THEN -1 ELSE d

CurlRound(s) == Eager([j \in Lanes |-> SBox(s[Indices(j)], s[Indices(j + 1)])])

RECURSIVE CurlRounds(_, _)
CurlRounds(s, r) == IF r = 0 THEN s ELSE CurlRounds(CurlRound(s), r - 1)

Transform(s) == CurlRounds(s, NumberOfRounds)

NewCurl == [j \in Lanes |-> 0]

\* Absorb: each hash-sized block of trits is copied over the head of the state
\* (a short last block padded with zero trits), then the state is transformed.
RECURSIVE AbsorbTrits(_, _)
AbsorbTrits(s, trits) ==
  IF Len(trits) = 0 THEN s
  ELSE LET n == IF Len(trits) < HashTrinarySize THEN Len(trits) ELSE HashTrinarySize
           copied == Eager([j \in Lanes |->
                        IF j < n THEN trits[j + 1]
                        ELSE IF j < HashTrinarySize THEN 0 ELSE s[j]])
       IN AbsorbTrits(Transform(copied), SubSeq(trits, n + 1, Len(trits)))

Absorb(s, trytes) == AbsorbTrits(s, MustTrytesToTrits(trytes))

(***************************************************************************)
(* pow: words and the bit-sliced kernel.                                   *)
(***************************************************************************)
\* The number 2^n.
RECURSIVE Pow2(_)
Pow2(n) == IF n = 0 THEN 1 ELSE 2 * Pow2(n - 1)

\* A word is the number its WordBits bits spell (a uint64 in the source).
Words == 0 .. (Pow2(WordBits) - 1)
hBits == Pow2(WordBits) - 1
lBits == 0

\* (w >> n) & 1
Bit(w, n) == (w \div Pow2(n)) % 2

\* The 64-bit seed constants, as four 16-bit limbs, least significant first.
low0 == << \hDB6D, \h6DB6, \hB6DB, \hDB6D >>
high0 == << \hB6DB, \hDB6D, \h6DB6, \hB6DB >>
low1 == << \h8FC7, \h3F1F, \hFC7E, \hF1F8 >>
high1 == << \h7E3F, \hF8FC, \hE3F1, \h8FC7 >>
low2 == << \h01FF, \hFFFC, \hE00F, \h7FFF >>
high2 == << \hFFFF, \hF803, \h1FFF, \hFFC0 >>
low3 == << \hFFFF, \h07FF, \h0000, \hFFC0 >>
high3 == << \hFFFF, \hFFFF, \hFFFF, \h003F >>

\* Bit n of a 64-bit constant.
ConstBit(c, n) == (c[(n \div 16) + 1] \div Pow2(n % 16)) % 2

\* The constant as a word of the model: its low WordBits bits.
RECURSIVE WordFrom(_, _)
WordFrom(c, n) == IF n >= WordBits THEN 0 ELSE (ConstBit(c, n) * Pow2(n)) + WordFrom(c, n + 1)

Word(c) == WordFrom(c, 0)

\* The operators of a word act on every bit position alike; ^ and & are
\* tabulated once for all pairs of words.
RECURSIVE XorBits(_, _)
XorBits(a, b) ==
  IF a = 0 /\ b = 0 THEN 0 ELSE (((a % 2) + (b % 2)) % 2) + (2 * XorBits(a \div 2, b \div 2))

RECURSIVE AndBits(_, _)
AndBits(a, b) ==
  IF a = 0 \/ b = 0 THEN 0 ELSE ((a % 2) * (b % 2)) + (2 * AndBits(a \div 2, b \div 2))

XorTable == Eager([a \in Words |-> Eager([b \in Words |-> XorBits(a, b)])])
AndTable == Eager([a \in Words |-> Eager([b \in Words |-> AndBits(a, b)])])

Xor(a, b) == XorTable[a][b]
And(a, b) == AndTable[a][b]
Or(a, b) == (a + b) - AndTable[a][b]
Not(a) == hBits - a

nonceOffset == HashTrinarySize - NonceTrinarySize
nonceInitStart == nonceOffset + 4
nonceIncrementStart == nonceInitStart + (NonceTrinarySize \div 3)

\* para with the case -1 missing: the lane keeps the zero words it was made with.
paraWithoutMinusOne(in) ==
  [l |-> [i \in Lanes |-> IF in[i] = 0 THEN hBits ELSE lBits],
   h |-> [i \in Lanes |-> IF in[i] = 0 \/ in[i] = 1 THEN hBits ELSE lBits]]

\* 01:-1 11:0 10:1
para(in) ==
  [l |-> [i \in Lanes |-> IF in[i] = 0 \/ in[i] = -1 THEN hBits ELSE lBits],
   h |-> [i \in Lanes |-> IF in[i] = 0 \/ in[i] = 1 THEN hBits ELSE lBits]]

\* The counter with the carry taken from low & ^high.
RECURSIVE CounterLoopCarrySwapped(_, _, _, _)
CounterLoopCarrySwapped(st, i, hi, carry) ==
  IF i < hi /\ carry # lBits
  THEN LET low == st.l[i]
           high == st.h[i]
       IN CounterLoopCarrySwapped([l |-> [st.l EXCEPT ![i] = Xor(high, low)],
                                   h |-> [st.h EXCEPT ![i] = low]],
                                  i + 1, hi, And(low, Not(high)))
  ELSE [l |-> st.l, h |-> st.h, i |-> i]

\* The ternary counter over lanes [i, hi): the lanes are stepped while the
\* carry word is not zero. The result holds the lane the loop stopped at.
RECURSIVE CounterLoop(_, _, _, _)
CounterLoop(st, i, hi, carry) ==
  IF i < hi /\ carry # lBits
  THEN LET low == st.l[i]
           high == st.h[i]
       IN CounterLoop([l |-> [st.l EXCEPT ![i] = Xor(high, low)],
                       h |-> [st.h EXCEPT ![i] = low]],
                      i + 1, hi, And(high, Not(low)))
  ELSE [l |-> st.l, h |-> st.h, i |-> i]

\* uint64(1): the carry a counter step starts with
carryOne == 1

RECURSIVE incrN(_, _)
incrN(n, st) ==
  IF n <= 0 THEN st
  ELSE LET r == CounterLoop(st, nonceInitStart, nonceIncrementStart, carryOne)
       IN incrN(n - 1, [l |-> r.l, h |-> r.h])

\* incr: the stepped state and the returned flag.
incr(st) ==
  LET r == CounterLoop(st, nonceInitStart, HashTrinarySize, carryOne)
  IN [st |-> [l |-> r.l, h |-> r.h], exhausted |-> (r.i = HashTrinarySize)]

\* The lane j of a round with delta = (alpha & ~gamma) & (L[t2] ^ beta).
SBox64AndDelta(from, j) ==
  LET t1 == Indices(j)
      t2 == Indices(j + 1)
      alpha == from.l[t1]
      beta == from.h[t1]
      gamma == from.h[t2]
      delta == And(And(alpha, Not(gamma)), Xor(from.l[t2], beta))
  IN [l |-> Not(delta), h |-> Or(Xor(alpha, gamma), delta)]

\* The lane j of a round from buffer `from`.
SBox64(from, j) ==
  LET t1 == Indices(j)
      t2 == Indices(j + 1)
      alpha == from.l[t1]
      beta == from.h[t1]
      gamma == from.h[t2]
      delta == And(Or(alpha, Not(gamma)), Xor(from.l[t2], beta))
  IN [l |-> Not(delta), h |-> Or(Xor(alpha, gamma), delta)]

\* One round of the bit-sliced permutation, from buffer `from`.
Round64(from) ==
  LET both == Eager([j \in Lanes |-> SBox64(from, j)])
  IN [l |-> Eager([j \in Lanes |-> both[j].l]),
      h |-> Eager([j \in Lanes |-> both[j].h])]

\* The rounds ping-pong between the caller's buffers (mid) and the temporaries
\* (tmp); after the last round the temporaries are copied over the caller's.
RECURSIVE PingPong(_, _, _, _)
PingPong(mid, tmp, fromMid, r) ==
  IF r < NumberOfRounds - 1
  THEN IF fromMid THEN PingPong(mid, Round64(mid), FALSE, r + 1)
       ELSE PingPong(Round64(tmp), tmp, TRUE, r + 1)
  ELSE IF fromMid THEN Round64(mid) ELSE tmp

transform64(st) ==
  PingPong(st, [l |-> [j \in Lanes |-> lBits], h |-> [j \in Lanes |-> lBits]], TRUE, 0)

seri(st, n) ==
  [k \in 1 .. NonceTrinarySize |->
     LET i == nonceOffset + (k - 1)
         ll == Bit(st.l[i], n)
         hh == Bit(st.h[i], n)
     IN IF hh = 0 /\ ll = 1 THEN -1
        ELSE IF hh = 1 /\ ll = 1 THEN 0
        ELSE IF hh = 1 /\ ll = 0 THEN 1
        ELSE 0]

\* The lanes [HashTrinarySize - m, HashTrinarySize) folded into the probe; the
\* fold stops with a zero probe.
RECURSIVE ProbeLoop(_, _, _)
ProbeLoop(st, i, probe) ==
  IF i < HashTrinarySize
  THEN LET p == And(probe, Not(Xor(st.l[i], st.h[i])))
       IN IF p = lBits THEN lBits ELSE ProbeLoop(st, i + 1, p)
  ELSE probe

\* check with the lowest of the lanes left out of the probe.
checkOneLaneShort(st, m) ==
  LET nonceProbe == ProbeLoop(st, (HashTrinarySize - m) + 1, hBits)
  IN IF \E i \in BitPos : Bit(nonceProbe, i) = 1
     THEN CHOOSE i \in BitPos :
            Bit(nonceProbe, i) = 1 /\ \A k \in 0 .. (i - 1) : Bit(nonceProbe, k) = 0
     ELSE -1

check(st, m) ==
  LET nonceProbe == ProbeLoop(st, HashTrinarySize - m, hBits)
  IN IF \E i \in BitPos : Bit(nonceProbe, i) = 1
     THEN CHOOSE i \in BitPos :
            Bit(nonceProbe, i) = 1 /\ \A k \in 0 .. (i - 1) : Bit(nonceProbe, k) = 0
     ELSE -1

(***************************************************************************)
(* pow: the package state, the callers and the goroutines of a call.       *)
(***************************************************************************)
MaxCPU == 3           \* runtime.NumCPU() ranges over 1 .. MaxCPU
MaxParallelism == 2   \* the parallelism argument ranges up to MaxParallelism
MaxMwm == 1           \* mwm ranges over 0 .. MaxMwm
NumCallers == 2       \* concurrent callers of the Proof-of-Work functions
MaxBatch == 2         \* transactions of a DoPoW call range up to MaxBatch
IntBits == 6          \* bits of the integers of IntToTrits and TritsToInt (64 in the source: int64)

Callers == 1 .. NumCallers

VARIABLES
  numCPU,                         \* runtime.NumCPU() of the machine
  defaultProofOfWorkParallelism,  \* set by init() from runtime.NumCPU()
  proofOfWorkFuncs,               \* the registry: name -> implementation
  syncGoProofOfWork,              \* the mutex: 0 when free, else the holder
  call,                           \* per caller: arguments, position, locals of goProofOfWork
  workers,                        \* per caller: the goroutines of its call, by index i
  lookup,                         \* the last call of GetProofOfWorkImpl and its results
  batch,                          \* the DoPoW call in progress
  conv                            \* the trinary conversion in progress

vars == << numCPU, defaultProofOfWorkParallelism, proofOfWorkFuncs, syncGoProofOfWork,
           call, workers, lookup, batch, conv >>

nil == << >>

\* init(): the registry and the default parallelism.
initFuncs == [name \in {"Go", "SyncGo"} |-> IF name = "Go" THEN "GoProofOfWork" ELSE "SyncGoProofOfWork"]

initParallelism(cpus) == IF cpus # 1 THEN cpus - 1 ELSE cpus

\* proofOfWorkParallelism taking the last argument instead of the first.
proofOfWorkParallelismLast(parallelism) ==
  IF Len(parallelism) # 0 /\ parallelism[Len(parallelism)] > 0
  THEN parallelism[Len(parallelism)]
  ELSE defaultProofOfWorkParallelism

proofOfWorkParallelism(parallelism) ==
  IF Len(parallelism) # 0 /\ parallelism[1] > 0
  THEN parallelism[1]
  ELSE defaultProofOfWorkParallelism

(***************************************************************************)
(* The transactions the callers pass. The trits of a transaction follow a  *)
(* pattern (chosen by s) except in the counter lanes of the nonce field:   *)
(* the lowest two hold a and b, the ones above hold +1, so that a worker's *)
(* counter runs out after a few steps.                                     *)
(***************************************************************************)
TxTrits(a, b, s) ==
  [k \in 1 .. TransactionTrinarySize |->
     LET lane == (k - 1) - (TransactionTrinarySize - HashTrinarySize)
     IN IF lane = nonceInitStart THEN a
        ELSE IF lane = nonceInitStart + 1 THEN b
        ELSE IF lane > nonceInitStart + 1 THEN 1
        ELSE (((k * k) + (k \div 5) + (s * k) + ((s * k) \div 7)) % 3) - 1]

\* The same with the top trit of the nonce field given.
TxTritsTop(a, b, s, top) == [TxTrits(a, b, s) EXCEPT ![TransactionTrinarySize] = top]

\* Transactions whose nonce field is a few steps from the end of the counter,
\* the last of them with a top trit that is not +1.
TxInputs ==
  { MustTritsToTrytes(TxTritsTop(x[1], x[2], x[3], x[4])) :
      x \in { <<-1, 0, 0, 1>>, <<-1, 0, 1, 1>>, <<-1, 1, 1, 1>>, <<-1, 1, 0, 0>> } }

\* A transaction whose nonce field is at the end of the counter: every trit
\* from nonceInitStart on is +1.
TxAtEnd == MustTritsToTrytes(TxTritsTop(1, 1, 0, 1))

\* The transactions and difficulties of a call. (A goroutine other than the
\* first starts the transaction at the end from the beginning of the counter:
\* it is called with mwm = 0 only, where the first candidate is taken.)
CallInputs ==
  ((TxInputs \cup {nil}) \X (0 .. MaxMwm)) \cup { << TxAtEnd, 0 >> }

ParallelismArgs ==
  { << >>, << 0 >>, << -1, MaxParallelism >>, << MaxParallelism >>, << 1, MaxParallelism >> }

\* A caller that has not called.
NoCall ==
  [variant |-> "none", trytes |-> nil, mwm |-> 0, parallelism |-> << >>,
   pc |-> "done", cancelled |-> "nil", exit |-> "nil", nonceChan |-> "nil",
   state |-> nil, numGoroutines |-> 0, result |-> nil, nonce |-> nil, err |-> "nil",
   received |-> 0]

NewCall(variant, trytes, mwm, parallelism) ==
  [NoCall EXCEPT !.variant = variant, !.trytes = trytes, !.mwm = mwm,
                 !.parallelism = parallelism, !.pc = "start"]

\* No error.
NoError == [cause |-> "nil", msg |-> ""]

\* Before any call of GetProofOfWorkImpl, and with no DoPoW and no conversion.
NoLookup == [called |-> FALSE, name |-> "", p |-> "nil", err |-> NoError]
NoBatch == [pc |-> "none"]
NoConv == [pc |-> "none"]

\* A goroutine of a call before it has run.
NewWorker ==
  [pc |-> "init", st |-> nil, cpy |-> nil, nonce |-> nil, n |-> -1,
   saw |-> FALSE, hashed |-> {}, left |-> "no"]

\* The nonce candidates of a state: the nonce field at every bit position,
\* with the bit position.
Candidates(st) == { << seri(st, n), n >> : n \in BitPos }

(***************************************************************************)
(* SyncGoProofOfWork: Lock, and by defer Unlock once goProofOfWork is back. *)
(***************************************************************************)
\* Lock on a mutex that does not wait for its holder.
SyncLockUnguarded(c) ==
  /\ call[c].variant = "SyncGo"
  /\ call[c].pc = "start"
  /\ syncGoProofOfWork' = c
  /\ call' = [call EXCEPT ![c].pc = "entry"]
  /\ UNCHANGED << numCPU, defaultProofOfWorkParallelism, proofOfWorkFuncs, workers, lookup, batch, conv >>

SyncLock(c) ==
  /\ call[c].variant = "SyncGo"
  /\ call[c].pc = "start"
  /\ syncGoProofOfWork = 0
  /\ syncGoProofOfWork' = c
  /\ call' = [call EXCEPT ![c].pc = "entry"]
  /\ UNCHANGED << numCPU, defaultProofOfWorkParallelism, proofOfWorkFuncs, workers, lookup, batch, conv >>

\* The return of SyncGoProofOfWork with the Unlock only on the path of a nonce.
SyncUnlockOnNonce(c) ==
  /\ call[c].variant = "SyncGo"
  /\ call[c].pc = "returned"
  /\ syncGoProofOfWork' = IF call[c].err # "nil" THEN syncGoProofOfWork ELSE 0
  /\ call' = [call EXCEPT ![c].pc = "done",
                          ![c].nonce = IF call[c].err # "nil" THEN nil ELSE call[c].result]
  /\ UNCHANGED << numCPU, defaultProofOfWorkParallelism, proofOfWorkFuncs, workers, lookup, batch, conv >>

SyncUnlock(c) ==
  /\ call[c].variant = "SyncGo"
  /\ call[c].pc = "returned"
  /\ syncGoProofOfWork' = 0
  /\ call' = [call EXCEPT ![c].pc = "done",
                          ![c].nonce = IF call[c].err # "nil" THEN nil ELSE call[c].result]
  /\ UNCHANGED << numCPU, defaultProofOfWorkParallelism, proofOfWorkFuncs, workers, lookup, batch, conv >>

\* Where goProofOfWork starts and ends for a caller's variant.
EntryPc(c) == IF call[c].variant = "SyncGo" THEN "entry" ELSE "start"
ReturnPc(c) == IF call[c].variant = "SyncGo" THEN "returned" ELSE "done"

(***************************************************************************)
(* goProofOfWork, up to the receive: the check of the trytes, the Curl     *)
(* state, the channels, and the goroutines.                                *)
(***************************************************************************)
CurlStateOf(trytes) ==
  LET absorbed == Absorb(NewCurl, SubSeq(trytes, 1, (TransactionTrinarySize - HashTrinarySize) \div 3))
      tr == MustTrytesToTrits(trytes)
  IN [j \in Lanes |->
        IF j < HashTrinarySize
        THEN tr[(TransactionTrinarySize - HashTrinarySize) + j + 1]
        ELSE absorbed[j]]

goProofOfWorkEntry(c) ==
  /\ call[c].variant \in {"Go", "SyncGo"}
  /\ call[c].pc = EntryPc(c)
  /\ IF call[c].trytes = nil
     THEN /\ call' = [call EXCEPT ![c].pc = ReturnPc(c), ![c].result = nil,
                                  ![c].err = "ErrInvalidTrytesForProofOfWork"]
          /\ UNCHANGED workers
     ELSE LET numGoroutines == proofOfWorkParallelism(call[c].parallelism)
          IN /\ call' = [call EXCEPT ![c].pc = "recv", ![c].cancelled = FALSE,
                                     ![c].state = CurlStateOf(call[c].trytes),
                                     ![c].numGoroutines = numGoroutines,
                                     ![c].exit = "open", ![c].nonceChan = "open"]
             /\ workers' = [workers EXCEPT ![c] = [i \in 0 .. (numGoroutines - 1) |-> NewWorker]]
  /\ UNCHANGED << numCPU, defaultProofOfWorkParallelism, proofOfWorkFuncs, syncGoProofOfWork, lookup, batch, conv >>

(***************************************************************************)
(* The goroutine of a call.                                                *)
(***************************************************************************)
\* The seeding with the constants written from nonceInitStart on.
WorkerSeedAtInitStart(c, i) ==
  LET p == para(call[c].state)
      seeded == [l |-> [p.l EXCEPT ![nonceInitStart] = Word(low0), ![nonceInitStart + 1] = Word(low1),
                                   ![nonceInitStart + 2] = Word(low2), ![nonceInitStart + 3] = Word(low3)],
                 h |-> [p.h EXCEPT ![nonceInitStart] = Word(high0), ![nonceInitStart + 1] = Word(high1),
                                   ![nonceInitStart + 2] = Word(high2), ![nonceInitStart + 3] = Word(high3)]]
  IN incrN(i, seeded)

WorkerSeed(c, i) ==
  LET p == para(call[c].state)
      seeded == [l |-> [p.l EXCEPT ![nonceOffset] = Word(low0), ![nonceOffset + 1] = Word(low1),
                                   ![nonceOffset + 2] = Word(low2), ![nonceOffset + 3] = Word(low3)],
                 h |-> [p.h EXCEPT ![nonceOffset] = Word(high0), ![nonceOffset + 1] = Word(high1),
                                   ![nonceOffset + 2] = Word(high2), ![nonceOffset + 3] = Word(high3)]]
  IN incrN(i, seeded)

WorkerInit(c, i) ==
  /\ i \in DOMAIN workers[c]
  /\ workers[c][i].pc = "init"
  /\ workers' = [workers EXCEPT ![c][i].st = WorkerSeed(c, i), ![c][i].pc = "loop"]
  /\ UNCHANGED << numCPU, defaultProofOfWorkParallelism, proofOfWorkFuncs, syncGoProofOfWork, call, lookup, batch, conv >>

\* What a read of the flag may return: the flag is written by other goroutines
\* with no synchronisation, so a read after a write may still return the old value.
ReadCancelled(c) == IF call[c].cancelled THEN {TRUE, FALSE} ELSE {FALSE}

\* One pass through the loop of loop(): incr, the poll of the flag, and for a
\* candidate the transform of the copy, the check and the nonce. The result is
\* the goroutine after the pass; a pass that leaves the loop also decides
\* whether the goroutine goes on to the select (r >= 0 && len(nonce) > 0).
\* cpy is the scratch copy (lcpy, hcpy) as the last transform64 left it.
\* loop with the poll of the flag moved behind the check of the candidate.
loopPollAfterCheck(w, m, cancelledRead) ==
  LET stepped == incr(w.st)
      cpy == transform64(stepped.st)
      n == check(cpy, m)
  IN IF stepped.exhausted
     THEN [w EXCEPT !.st = stepped.st, !.pc = "done", !.left = "nil"]
     ELSE IF n >= 0
     THEN [w EXCEPT !.st = stepped.st, !.cpy = cpy, !.pc = "select", !.n = n,
                    !.nonce = seri(stepped.st, n), !.saw = cancelledRead,
                    !.hashed = w.hashed \cup Candidates(stepped.st)]
     ELSE IF cancelledRead
     THEN [w EXCEPT !.st = stepped.st, !.cpy = cpy, !.pc = "done", !.left = "nil", !.saw = TRUE]
     ELSE [w EXCEPT !.st = stepped.st, !.cpy = cpy,
                    !.hashed = w.hashed \cup Candidates(stepped.st)]

\* The loop with the permutation applied to the goroutine's own state, and the
\* nonce read from the permuted state.
loopTransformInPlace(w, m, cancelledRead) ==
  LET stepped == incr(w.st)
      cpy == transform64(stepped.st)
      n == check(cpy, m)
  IN IF stepped.exhausted
     THEN [w EXCEPT !.st = stepped.st, !.pc = "done", !.left = "nil"]
     ELSE IF cancelledRead
     THEN [w EXCEPT !.st = stepped.st, !.pc = "done", !.left = "nil", !.saw = TRUE]
     ELSE IF n >= 0
     THEN [w EXCEPT !.st = cpy, !.cpy = cpy, !.pc = "select", !.n = n,
                    !.nonce = seri(cpy, n),
                    !.hashed = w.hashed \cup Candidates(stepped.st)]
     ELSE [w EXCEPT !.st = cpy, !.cpy = cpy,
                    !.hashed = w.hashed \cup Candidates(stepped.st)]

loop(w, m, cancelledRead) ==
  LET stepped == incr(w.st)
      cpy == transform64(stepped.st)
      n == check(cpy, m)
  IN IF stepped.exhausted
     THEN [w EXCEPT !.st = stepped.st, !.pc = "done", !.left = "nil"]
     ELSE IF cancelledRead
     THEN [w EXCEPT !.st = stepped.st, !.pc = "done", !.left = "nil", !.saw = TRUE]
     ELSE IF n >= 0
     THEN [w EXCEPT !.st = stepped.st, !.cpy = cpy, !.pc = "select", !.n = n,
                    !.nonce = seri(stepped.st, n),
                    !.hashed = w.hashed \cup Candidates(stepped.st)]
     ELSE [w EXCEPT !.st = stepped.st, !.cpy = cpy,
                    !.hashed = w.hashed \cup Candidates(stepped.st)]

WorkerLoop(c, i) ==
  /\ i \in DOMAIN workers[c]
  /\ workers[c][i].pc = "loop"
  /\ \E cancelledRead \in ReadCancelled(c) :
       workers' = [workers EXCEPT ![c][i] = loop(workers[c][i], call[c].mwm, cancelledRead)]
  /\ UNCHANGED << numCPU, defaultProofOfWorkParallelism, proofOfWorkFuncs, syncGoProofOfWork, call, lookup, batch, conv >>

\* The send on a channel that takes a value whether or not a receiver waits.
WorkerSendUnmet(c, i) ==
  /\ i \in DOMAIN workers[c]
  /\ workers[c][i].pc = "select"
  /\ call[c].exit = "open"
  /\ call' = [call EXCEPT ![c].result = MustTritsToTrytes(workers[c][i].nonce),
                          ![c].received = call[c].received + 1,
                          ![c].pc = IF call[c].pc = "recv" THEN "close" ELSE call[c].pc]
  /\ workers' = [workers EXCEPT ![c][i].pc = "sent", ![c][i].left = "sent"]
  /\ UNCHANGED << numCPU, defaultProofOfWorkParallelism, proofOfWorkFuncs, syncGoProofOfWork, lookup, batch, conv >>

\* select: case nonceChan <- MustTritsToTrytes(nonce), met by the receive of
\* goProofOfWork (the channel has no buffer).
WorkerSend(c, i) ==
  /\ i \in DOMAIN workers[c]
  /\ workers[c][i].pc = "select"
  /\ call[c].pc = "recv"
  /\ call' = [call EXCEPT ![c].result = MustTritsToTrytes(workers[c][i].nonce),
                          ![c].received = call[c].received + 1,
                          ![c].pc = "close"]
  /\ workers' = [workers EXCEPT ![c][i].pc = "sent", ![c][i].left = "sent"]
  /\ UNCHANGED << numCPU, defaultProofOfWorkParallelism, proofOfWorkFuncs, syncGoProofOfWork, lookup, batch, conv >>

\* select: case <-exit, ready once exit is closed.
WorkerExit(c, i) ==
  /\ i \in DOMAIN workers[c]
  /\ workers[c][i].pc = "select"
  /\ call[c].exit = "closed"
  /\ workers' = [workers EXCEPT ![c][i].pc = "done", ![c][i].left = "exit"]
  /\ UNCHANGED << numCPU, defaultProofOfWorkParallelism, proofOfWorkFuncs, syncGoProofOfWork, call, lookup, batch, conv >>

\* cancelled = true, after the send.
WorkerCancel(c, i) ==
  /\ i \in DOMAIN workers[c]
  /\ workers[c][i].pc = "sent"
  /\ call' = [call EXCEPT ![c].cancelled = TRUE]
  /\ workers' = [workers EXCEPT ![c][i].pc = "done"]
  /\ UNCHANGED << numCPU, defaultProofOfWorkParallelism, proofOfWorkFuncs, syncGoProofOfWork, lookup, batch, conv >>

(***************************************************************************)
(* goProofOfWork, after the receive.                                       *)
(***************************************************************************)
CloseExit(c) ==
  /\ call[c].pc = "close"
  /\ call' = [call EXCEPT ![c].exit = "closed", ![c].pc = "cancel"]
  /\ UNCHANGED << numCPU, defaultProofOfWorkParallelism, proofOfWorkFuncs, syncGoProofOfWork, workers, lookup, batch, conv >>

goProofOfWorkReturn(c) ==
  /\ call[c].pc = "cancel"
  /\ call' = [call EXCEPT ![c].cancelled = TRUE, ![c].err = "nil", ![c].pc = ReturnPc(c),
                          ![c].nonce = IF call[c].variant = "Go" THEN call[c].result ELSE nil]
  /\ UNCHANGED << numCPU, defaultProofOfWorkParallelism, proofOfWorkFuncs, syncGoProofOfWork, workers, lookup, batch, conv >>

\* The steps of goProofOfWork and of its goroutines.
GoNext(c) ==
  \/ goProofOfWorkEntry(c)
  \/ CloseExit(c)
  \/ goProofOfWorkReturn(c)
  \/ \E i \in 0 .. (MaxParallelism + MaxCPU) :
       \/ WorkerInit(c, i)
       \/ WorkerLoop(c, i)
       \/ WorkerSend(c, i)
       \/ WorkerExit(c, i)
       \/ WorkerCancel(c, i)

\* init() on a machine with one of the given numbers of CPUs, and nothing
\* called yet.
InitPackage(cpus) ==
  /\ numCPU \in cpus
  /\ defaultProofOfWorkParallelism = initParallelism(numCPU)
  /\ proofOfWorkFuncs = initFuncs
  /\ syncGoProofOfWork = 0
  /\ workers = [c \in Callers |-> << >>]

\* One call of GoProofOfWork.
Init ==
  /\ InitPackage(1 .. MaxCPU)
  /\ lookup = NoLookup /\ batch = NoBatch /\ conv = NoConv
  /\ \E in \in CallInputs, parallelism \in ParallelismArgs :
       call = [c \in Callers |-> IF c = 1 THEN NewCall("Go", in[1], in[2], parallelism) ELSE NoCall]

Next == \E c \in Callers : GoNext(c)

Spec == Init /\ [][Next]_vars

\* The transaction the concurrent callers pass.
TxSync == MustTritsToTrytes(TxTrits(-1, 0, 0))

\* NumCallers concurrent calls of SyncGoProofOfWork with a transaction or with
\* empty trytes; the first may instead be a call of GoProofOfWork with empty
\* trytes.
SyncInputs ==
  { in \in [Callers -> {"Go", "SyncGo"} \X {TxSync, nil}] :
      \A c \in Callers : in[c][1] = "Go" => (c = 1 /\ in[c][2] = nil) }

InitSync ==
  /\ InitPackage({1})
  /\ lookup = NoLookup /\ batch = NoBatch /\ conv = NoConv
  /\ \E in \in SyncInputs :
       call = [c \in Callers |-> NewCall(in[c][1], in[c][2], 0, << 2 >>)]

NextSync == \E c \in Callers : SyncLock(c) \/ SyncUnlock(c) \/ GoNext(c)

SpecSync == InitSync /\ [][NextSync]_vars

(***************************************************************************)
(* The registry.                                                           *)
(***************************************************************************)
\* A lookup that falls back to SyncGoProofOfWork for a name it does not know.
GetProofOfWorkImplFallback(name) ==
  IF name \in DOMAIN proofOfWorkFuncs
  THEN [p |-> proofOfWorkFuncs[name], err |-> NoError]
  ELSE [p |-> "SyncGoProofOfWork", err |-> NoError]

\* GetProofOfWorkImpl: the function and nil, or nil and the wrapped error.
GetProofOfWorkImpl(name) ==
  IF name \in DOMAIN proofOfWorkFuncs
  THEN [p |-> proofOfWorkFuncs[name], err |-> NoError]
  ELSE [p |-> "nil", err |-> [cause |-> "ErrUnknownProofOfWorkFunc", msg |-> name]]

LookupNames == {"Go", "SyncGo", "SyncC", "go", ""}

Lookup(name) ==
  /\ lookup' = [called |-> TRUE, name |-> name,
                p |-> GetProofOfWorkImpl(name).p, err |-> GetProofOfWorkImpl(name).err]
  /\ UNCHANGED << numCPU, defaultProofOfWorkParallelism, proofOfWorkFuncs, syncGoProofOfWork,
                  call, workers, batch, conv >>

(***************************************************************************)
(* DoPoW. The trytes of a transaction are held by their fields; the        *)
(* transaction package is not part of the sources, so the parse, the        *)
(* serialisation and the hash follow the description of the batch driver.  *)
(***************************************************************************)
\* The trytes of a transaction before DoPoW, with payload p; trytes that do
\* not parse have valid = FALSE.
TxTrytes(p, valid) ==
  [valid |-> valid, payload |-> p, trunk |-> 0, branch |-> 0, nonce |-> 0,
   attachmentTimestamp |-> 0, lowerBound |-> "unset", upperBound |-> "unset"]

\* AsTransactionObjects: the transactions of the trytes, or an error.
AsTransactionObjects(trytes) ==
  IF \E k \in DOMAIN trytes : ~trytes[k].valid
  THEN [txs |-> << >>, err |-> "ErrInvalidTrytes"]
  ELSE [txs |-> [k \in DOMAIN trytes |-> [trytes |-> trytes[k], hash |-> 0]], err |-> "nil"]

MustTransactionToTrytes(tx) == tx.trytes

MustTransactionsToTrytes(txs) == [k \in DOMAIN txs |-> MustTransactionToTrytes(txs[k])]

\* TransactionHash: the hash of the trytes of the transaction, a number that
\* depends on every field.
TransactionHash(tx) ==
  LET t == tx.trytes
  IN 100 + (((t.payload * 2) + (t.trunk * 3) + (t.branch * 5) + (t.nonce * 7)
             + (t.attachmentTimestamp * 11)) % 89)

TrunkInputs == {1, 2}
BranchInputs == {3, 4}
Timestamps == {8, 9}

\* What the ProofOfWorkFunc passed to DoPoW may return.
PowResults ==
  { [nonce |-> n, err |-> "nil"] : n \in {1, 2} }
    \cup { [nonce |-> 0, err |-> "ErrInvalidTrytesForProofOfWork"] }

NewBatch(trunkTx, branchTx, trytes, mwm) ==
  [pc |-> "start", trunkTx |-> trunkTx, branchTx |-> branchTx, trytes |-> trytes,
   mwm |-> mwm, txs |-> << >>, i |-> 0, prev |-> 0, out |-> << >>, err |-> "nil",
   calls |-> << >>]

\* txs, err := AsTransactionObjects(trytes, nil)
DoPoWParse ==
  /\ batch.pc = "start"
  /\ LET r == AsTransactionObjects(batch.trytes)
     IN batch' = IF r.err # "nil"
                 THEN [batch EXCEPT !.pc = "done", !.out = << >>, !.err = r.err]
                 ELSE [batch EXCEPT !.pc = "loop", !.txs = r.txs, !.i = 0]
  /\ UNCHANGED << numCPU, defaultProofOfWorkParallelism, proofOfWorkFuncs, syncGoProofOfWork,
                  call, workers, lookup, conv >>

\* The transaction at position i with the fields DoPoW sets before the call
\* of pow (position i of the source is index i + 1 here).
Chained(b, now) ==
  [b.txs[b.i + 1] EXCEPT
     !.trytes.trunk = IF b.i = 0 THEN b.trunkTx ELSE b.prev,
     !.trytes.branch = IF b.i = 0 THEN b.branchTx ELSE b.trunkTx,
     !.trytes.attachmentTimestamp = now,
     !.trytes.lowerBound = "LowerBoundAttachmentTimestamp",
     !.trytes.upperBound = "UpperBoundAttachmentTimestamp"]

\* A pass that takes the hash before the nonce is set.
DoPoWPassHashFirst(b, now, r) ==
  LET set == Chained(b, now)
      hashed == [set EXCEPT !.hash = TransactionHash(set)]
      powed == [hashed EXCEPT !.trytes.nonce = r.nonce]
  IN IF r.err # "nil"
     THEN [b EXCEPT !.pc = "done", !.out = << >>, !.err = r.err,
                    !.txs = [b.txs EXCEPT ![b.i + 1] = set],
                    !.calls = Append(b.calls, [i |-> b.i, err |-> r.err])]
     ELSE [b EXCEPT !.txs = [b.txs EXCEPT ![b.i + 1] = powed],
                    !.prev = powed.hash, !.i = b.i + 1,
                    !.calls = Append(b.calls, [i |-> b.i, err |-> r.err])]

\* A pass that goes on to the next transaction after an error of pow.
DoPoWPassSkipFailed(b, now, r) ==
  LET set == Chained(b, now)
      powed == [set EXCEPT !.trytes.nonce = r.nonce]
      hashed == [powed EXCEPT !.hash = TransactionHash(powed)]
  IN IF r.err # "nil"
     THEN [b EXCEPT !.err = r.err, !.i = b.i + 1,
                    !.txs = [b.txs EXCEPT ![b.i + 1] = set],
                    !.calls = Append(b.calls, [i |-> b.i, err |-> r.err])]
     ELSE [b EXCEPT !.txs = [b.txs EXCEPT ![b.i + 1] = hashed],
                    !.prev = hashed.hash, !.i = b.i + 1,
                    !.calls = Append(b.calls, [i |-> b.i, err |-> r.err])]

\* One pass of the loop of DoPoW, with the time now and the result r of pow;
\* calls is the record of the calls of pow made so far.
DoPoWPass(b, now, r) ==
  LET set == Chained(b, now)
      powed == [set EXCEPT !.trytes.nonce = r.nonce]
      hashed == [powed EXCEPT !.hash = TransactionHash(powed)]
  IN IF r.err # "nil"
     THEN [b EXCEPT !.pc = "done", !.out = << >>, !.err = r.err,
                    !.txs = [b.txs EXCEPT ![b.i + 1] = set],
                    !.calls = Append(b.calls, [i |-> b.i, err |-> r.err])]
     ELSE [b EXCEPT !.txs = [b.txs EXCEPT ![b.i + 1] = hashed],
                    !.prev = hashed.hash, !.i = b.i + 1,
                    !.calls = Append(b.calls, [i |-> b.i, err |-> r.err])]

DoPoWLoop ==
  /\ batch.pc = "loop"
  /\ batch.i < Len(batch.txs)
  /\ \E now \in Timestamps, r \in PowResults : batch' = DoPoWPass(batch, now, r)
  /\ UNCHANGED << numCPU, defaultProofOfWorkParallelism, proofOfWorkFuncs, syncGoProofOfWork,
                  call, workers, lookup, conv >>

\* return MustTransactionsToTrytes(txs), nil
DoPoWReturn ==
  /\ batch.pc = "loop"
  /\ batch.i >= Len(batch.txs)
  /\ batch' = [batch EXCEPT !.pc = "done", !.out = MustTransactionsToTrytes(batch.txs),
                            !.err = "nil"]
  /\ UNCHANGED << numCPU, defaultProofOfWorkParallelism, proofOfWorkFuncs, syncGoProofOfWork,
                  call, workers, lookup, conv >>

\* The batches passed to DoPoW: up to MaxBatch transactions, the one at
\* position k with payload k, each with trytes that parse or do not.
BatchInputs ==
  UNION { { [k \in 1 .. len |-> TxTrytes(k, valid[k])] : valid \in [1 .. len -> BOOLEAN] } :
            len \in 0 .. MaxBatch }

\* A call of DoPoW and calls of GetProofOfWorkImpl.
InitBatch ==
  /\ InitPackage({1})
  /\ call = [c \in Callers |-> NoCall]
  /\ lookup = NoLookup /\ conv = NoConv
  /\ \E trunkTx \in TrunkInputs, branchTx \in BranchInputs, trytes \in BatchInputs :
       batch = NewBatch(trunkTx, branchTx, trytes, MaxMwm)

NextBatch ==
  \/ \E name \in LookupNames : Lookup(name)
  \/ DoPoWParse
  \/ DoPoWLoop
  \/ DoPoWReturn

SpecBatch == InitBatch /\ [][NextBatch]_vars

(***************************************************************************)
(* trinary: the conversions between integers and trits. The integers are   *)
(* two's complement of IntBits bits, as int64 is of 64.                     *)
(***************************************************************************)
MinInt == 0 - Pow2(IntBits - 1)
MaxInt == Pow2(IntBits - 1) - 1

\* The value an arithmetic result is stored as.
WrapInt(x) == ((x + Pow2(IntBits - 1)) % Pow2(IntBits)) - Pow2(IntBits - 1)

\* floor(log(x) / log(3)) for x >= 1. (The source computes it in float64,
\* where it is exact for the integers of this width.)
RECURSIVE FloorLog3(_)
FloorLog3(x) == IF x < TrinaryRadix THEN 0 ELSE 1 + FloorLog3(x \div TrinaryRadix)

\* The loop of IntToTrits: dest[i] for as long as absoluteValue > 0. A store
\* behind the end of dest is a panic.
RECURSIVE IntToTritsLoop(_, _, _)
IntToTritsLoop(absoluteValue, dest, i) ==
  IF absoluteValue > 0
  THEN LET remainder == absoluteValue % TrinaryRadix
           quotient == absoluteValue \div TrinaryRadix
       IN IF i > Len(dest) THEN [trits |-> dest, panic |-> TRUE]
          ELSE IF remainder > MaxTritValue
          THEN IntToTritsLoop(WrapInt(quotient + 1), [dest EXCEPT ![i] = MinTritValue], i + 1)
          ELSE IntToTritsLoop(quotient, [dest EXCEPT ![i] = remainder], i + 1)
  ELSE [trits |-> dest, panic |-> FALSE]

\* IntToTrits: the trits, or a panic.
IntToTrits(value) ==
  IF value = 0 THEN [trits |-> << 0 >>, panic |-> FALSE]
  ELSE LET abs == IF value < 0 THEN 0 - value ELSE value
           max == IF abs > 1 THEN abs ELSE 1
           dest == [k \in 1 .. (1 + FloorLog3(2 * max)) |-> 0]
           absoluteValue == IF value < 0 THEN WrapInt(0 - value) ELSE value
           filled == IntToTritsLoop(absoluteValue, dest, 1)
       IN IF value < 0
          THEN [filled EXCEPT !.trits = [k \in DOMAIN filled.trits |-> 0 - filled.trits[k]]]
          ELSE filled

RECURSIVE TritsToIntFrom(_, _, _)
TritsToIntFrom(t, i, val) ==
  IF i >= 1 THEN TritsToIntFrom(t, i - 1, WrapInt((val * 3) + t[i])) ELSE val

TritsToInt(t) == TritsToIntFrom(t, Len(t), 0)

\* A conversion of an integer to trits and back.
NewConv(value) ==
  [pc |-> "value", value |-> value, trits |-> << >>, panic |-> FALSE, back |-> 0]

ConvIntToTrits ==
  /\ conv.pc = "value"
  /\ conv' = [conv EXCEPT !.pc = "trits", !.trits = IntToTrits(conv.value).trits,
                          !.panic = IntToTrits(conv.value).panic]
  /\ UNCHANGED << numCPU, defaultProofOfWorkParallelism, proofOfWorkFuncs, syncGoProofOfWork,
                  call, workers, lookup, batch >>

ConvTritsToInt ==
  /\ conv.pc = "trits"
  /\ ~conv.panic
  /\ conv' = [conv EXCEPT !.pc = "back", !.back = TritsToInt(conv.trits)]
  /\ UNCHANGED << numCPU, defaultProofOfWorkParallelism, proofOfWorkFuncs, syncGoProofOfWork,
                  call, workers, lookup, batch >>

InitTrinary ==
  /\ InitPackage({1})
  /\ call = [c \in Callers |-> NoCall]
  /\ lookup = NoLookup /\ batch = NoBatch
  /\ \E value \in MinInt .. MaxInt : conv = NewConv(value)

NextTrinary == ConvIntToTrits \/ ConvTritsToInt

SpecTrinary == InitTrinary /\ [][NextTrinary]_vars

(***************************************************************************)
(* trinary: the conversions between trits and trytes.                      *)
(***************************************************************************)
MaxTrits == 6   \* the trit slices converted are of length 0 .. MaxTrits

\* The int8 values of a slice: the trits and two values that are none.
TritInputs == {-1, 0, 1, 2, -45}

TritSlices == UNION { [1 .. n -> TritInputs] : n \in 0 .. MaxTrits }

\* A conversion of trits to trytes and back.
NewTrytesConv(trits) ==
  [pc |-> "tritsIn", trits |-> trits, trytes |-> << >>, err |-> "nil",
   back |-> << >>, backErr |-> "nil"]

ConvTritsToTrytes ==
  /\ conv.pc = "tritsIn"
  /\ conv' = [conv EXCEPT !.pc = "trytesOut", !.trytes = TritsToTrytes(conv.trits).trytes,
                          !.err = TritsToTrytes(conv.trits).err]
  /\ UNCHANGED << numCPU, defaultProofOfWorkParallelism, proofOfWorkFuncs, syncGoProofOfWork,
                  call, workers, lookup, batch >>

ConvTrytesToTrits ==
  /\ conv.pc = "trytesOut"
  /\ conv.err = "nil"
  /\ conv' = [conv EXCEPT !.pc = "tritsBack", !.back = TrytesToTrits(conv.trytes).trits,
                          !.backErr = TrytesToTrits(conv.trytes).err]
  /\ UNCHANGED << numCPU, defaultProofOfWorkParallelism, proofOfWorkFuncs, syncGoProofOfWork,
                  call, workers, lookup, batch >>

InitTrytes ==
  /\ InitPackage({1})
  /\ call = [c \in Callers |-> NoCall]
  /\ lookup = NoLookup /\ batch = NoBatch
  /\ \E trits \in TritSlices : conv = NewTrytesConv(trits)

NextTrytes == ConvTritsToTrytes \/ ConvTrytesToTrits

SpecTrytes == InitTrytes /\ [][NextTrytes]_vars

(***************************************************************************)
(* trinary: the addition of trits.                                         *)
(***************************************************************************)
sum(a, b) ==
  LET s == a + b
  IN IF s = 2 THEN -1 ELSE IF s = -2 THEN 1 ELSE s

cons(a, b) == IF a = b THEN a ELSE 0

any(a, b) ==
  LET s == a + b
  IN IF s > 0 THEN 1 ELSE IF s < 0 THEN -1 ELSE 0

\* fullAdd: << sOut, cOut >>
fullAdd(a, b, c) ==
  LET sA == sum(a, b)
      cA == cons(a, b)
      cB == cons(sA, c)
      cOut == any(cA, cB)
      sOut == sum(sA, c)
  IN << sOut, cOut >>

\* The loop of AddTrits from the 1-based place i on, with the carry so far.
RECURSIVE AddTritsLoop(_, _, _, _, _)
AddTritsLoop(a, b, out, i, carry) ==
  IF i <= Len(out)
  THEN LET aI == IF i <= Len(a) THEN a[i] ELSE 0
           bI == IF i <= Len(b) THEN b[i] ELSE 0
           fA == fullAdd(aI, bI, carry)
       IN AddTritsLoop(a, b, [out EXCEPT ![i] = fA[1]], i + 1, fA[2])
  ELSE out

AddTrits(a, b) ==
  LET maxLen == IF Len(a) > Len(b) THEN Len(a) ELSE Len(b)
  IN IF maxLen = 0 THEN << 0 >>
     ELSE AddTritsLoop(a, b, [k \in 1 .. maxLen |-> 0], 1, 0)

\* The operands: the integers of the width that IntToTrits converts to
\* their own trits (all but the least one).
AddInputs == (MinInt + 1) .. MaxInt

\* An addition of two integers by way of their trits.
NewAddition(a, b) ==
  [pc |-> "operands", a |-> a, b |-> b, ta |-> << >>, tb |-> << >>,
   panic |-> FALSE, out |-> << >>, back |-> 0]

AddOperands ==
  /\ conv.pc = "operands"
  /\ conv' = [conv EXCEPT !.pc = "trits", !.ta = IntToTrits(conv.a).trits,
                          !.tb = IntToTrits(conv.b).trits,
                          !.panic = IntToTrits(conv.a).panic \/ IntToTrits(conv.b).panic]
  /\ UNCHANGED << numCPU, defaultProofOfWorkParallelism, proofOfWorkFuncs, syncGoProofOfWork,
                  call, workers, lookup, batch >>

AddSum ==
  /\ conv.pc = "trits"
  /\ ~conv.panic
  /\ conv' = [conv EXCEPT !.pc = "sum", !.out = AddTrits(conv.ta, conv.tb)]
  /\ UNCHANGED << numCPU, defaultProofOfWorkParallelism, proofOfWorkFuncs, syncGoProofOfWork,
                  call, workers, lookup, batch >>

AddBack ==
  /\ conv.pc = "sum"
  /\ conv' = [conv EXCEPT !.pc = "back", !.back = TritsToInt(conv.out)]
  /\ UNCHANGED << numCPU, defaultProofOfWorkParallelism, proofOfWorkFuncs, syncGoProofOfWork,
                  call, workers, lookup, batch >>

InitAdd ==
  /\ InitPackage({1})
  /\ call = [c \in Callers |-> NoCall]
  /\ lookup = NoLookup /\ batch = NoBatch
  /\ \E a \in AddInputs, b \in AddInputs : conv = NewAddition(a, b)

NextAdd == AddOperands \/ AddSum \/ AddBack

SpecAdd == InitAdd /\ [][NextAdd]_vars

(***************************************************************************)
(* trinary and bigint: the hash as bytes. The big integer is IntLength     *)
(* limbs of LimbBytes bytes, least significant first (twelve uint32 in the *)
(* source), wide enough for a hash of HashTrinarySize trits.               *)
(***************************************************************************)
LimbBytes == 2   \* bytes of a limb (4 in the source: uint32)

LimbBase == Pow2(8 * LimbBytes)

\* 384 bits for 243 trits: the bits of 3^(HashTrinarySize - 1), in whole limbs
\* (log2(3) is 1.585).
IntLength == (((HashTrinarySize - 1) * 317) \div (200 * 8 * LimbBytes)) + 1
HashBytesSize == LimbBytes * IntLength

nullLimbs == [j \in 1 .. IntLength |-> 0]

\* bigint.IsNull
bigintIsNull(b) == \A j \in 1 .. Len(b) : b[j] = 0

\* bigint.Not: the bitwise complement
bigintNot(b) == [j \in 1 .. Len(b) |-> (LimbBase - 1) - b[j]]

\* bigint.AddSmall(b, a): [b, n], n the number of limbs the carry reached.
RECURSIVE bigintCarry(_, _)
bigintCarry(b, i) ==
  IF i > Len(b) THEN [b |-> b, n |-> i - 1]
  ELSE IF b[i] + 1 = LimbBase THEN bigintCarry([b EXCEPT ![i] = 0], i + 1)
  ELSE [b |-> [b EXCEPT ![i] = b[i] + 1], n |-> i]

bigintAddSmall(b, a) ==
  LET v == b[1] + a
  IN IF v >= LimbBase THEN bigintCarry([b EXCEPT ![1] = v - LimbBase], 2)
     ELSE [b |-> [b EXCEPT ![1] = v], n |-> 1]

\* bigint.MustCmp: -1, 0 or 1 as a is less than, equal to or greater than b.
RECURSIVE bigintCmpFrom(_, _, _)
bigintCmpFrom(a, b, j) ==
  IF j < 1 THEN 0
  ELSE IF a[j] < b[j] THEN -1
  ELSE IF a[j] > b[j] THEN 1
  ELSE bigintCmpFrom(a, b, j - 1)

bigintMustCmp(a, b) == bigintCmpFrom(a, b, Len(a))

\* bigint.MustAdd(a, b): [b, panic]; a carry out of the last limb aborts.
RECURSIVE bigintAddFrom(_, _, _, _)
bigintAddFrom(a, b, j, carry) ==
  IF j > Len(a) THEN [b |-> a, panic |-> carry # 0]
  ELSE LET v == a[j] + b[j] + carry
       IN bigintAddFrom([a EXCEPT ![j] = v % LimbBase], b, j + 1, v \div LimbBase)

bigintMustAdd(a, b) == bigintAddFrom(a, b, 1, 0)

\* bigint.MustSub(a, b): [b, panic]; a borrow out of the last limb aborts.
RECURSIVE bigintSubFrom(_, _, _, _)
bigintSubFrom(a, b, j, borrow) ==
  IF j > Len(a) THEN [b |-> a, panic |-> borrow # 0]
  ELSE LET v == (a[j] - b[j]) - borrow
       IN bigintSubFrom([a EXCEPT ![j] = v % LimbBase], b, j + 1, IF v < 0 THEN 1 ELSE 0)

bigintMustSub(a, b) == bigintSubFrom(a, b, 1, 0)

\* bigint.Reverse: the bytes in the opposite order
bigintReverse(b) == [k \in 1 .. Len(b) |-> b[(Len(b) + 1) - k]]

\* (*[]uint32)(unsafe.Pointer(&b)): the limbs a byte slice spells on a
\* little-endian machine, and the bytes of limbs.
RECURSIVE LimbOf(_, _, _)
LimbOf(b, j, k) ==
  IF k >= LimbBytes THEN 0
  ELSE b[((j - 1) * LimbBytes) + k + 1] + (256 * LimbOf(b, j, k + 1))

LimbsOf(b) == [j \in 1 .. IntLength |-> LimbOf(b, j, 0)]

BytesOf(base) ==
  [k \in 1 .. HashBytesSize |->
     (base[((k - 1) \div LimbBytes) + 1] \div Pow2(8 * ((k - 1) % LimbBytes))) % 256]

\* One step of the loop of TritsToBytes: base = base * 3 + (e + 1).
RECURSIVE TimesRadix(_, _, _, _)
TimesRadix(base, j, sz, carry) ==
  IF j <= sz
  THEN LET v == (base[j] * TrinaryRadix) + carry
       IN TimesRadix([base EXCEPT ![j] = v % LimbBase], j + 1, sz, v \div LimbBase)
  ELSE [base |-> base, carry |-> carry]

\* The loop of TritsToBytes over the trits i, i - 1, .. 1 (the reversed
\* slice): [base, size, panic]. A carry stored behind the last limb is a panic.
RECURSIVE TritsToBigInt(_, _, _, _)
TritsToBigInt(trits, i, base, size) ==
  IF i < 1 THEN [base |-> base, size |-> size, panic |-> FALSE]
  ELSE LET m == TimesRadix(base, 1, size, 0)
       IN IF m.carry > 0 /\ size >= IntLength
          THEN [base |-> m.base, size |-> size, panic |-> TRUE]
          ELSE LET grown == IF m.carry > 0 THEN [m.base EXCEPT ![size + 1] = m.carry]
                                           ELSE m.base
                   sz == IF m.carry > 0 THEN size + 1 ELSE size
                   trit == trits[i] + 1
                   added == bigintAddSmall(grown, trit)
               IN TritsToBigInt(trits, i - 1, added.b,
                                IF added.n > sz THEN added.n ELSE sz)

\* (3^(HashTrinarySize - 1)) / 2: the number whose HashTrinarySize - 1 trits are all 1.
halfThree ==
  TritsToBigInt([k \in 1 .. (HashTrinarySize - 1) |-> 0], HashTrinarySize - 1, nullLimbs, 1).base

CanBeHash(trits) == Len(trits) = HashTrinarySize

\* TritsToBytes with base - halfThree left out.
TritsToBytesOffset(trits) ==
  IF ~CanBeHash(trits)
  THEN [bytes |-> << >>, err |-> "ErrInvalidTritsLength"]
  ELSE LET r == TritsToBigInt(trits, HashTrinarySize - 1, nullLimbs, 1)
       IN [bytes |-> bigintReverse(BytesOf(r.base)), err |-> "nil"]

\* TritsToBytes: [bytes, err]; err "panic" for a run-time panic.
TritsToBytes(trits) ==
  IF ~CanBeHash(trits)
  THEN [bytes |-> << >>, err |-> "ErrInvalidTritsLength"]
  ELSE IF \A k \in 1 .. (HashTrinarySize - 1) : trits[k] = -1
  THEN [bytes |-> bigintReverse(BytesOf(bigintAddSmall(bigintNot(halfThree), 1).b)),
        err |-> "nil"]
  ELSE LET r == TritsToBigInt(trits, HashTrinarySize - 1, nullLimbs, 1)
           base == r.base
           sub == IF bigintMustCmp(halfThree, base) <= 0
                  THEN bigintMustSub(base, halfThree)
                  ELSE LET tmp == bigintMustSub(halfThree, base)
                       IN [b |-> bigintAddSmall(bigintNot(tmp.b), 1).b, panic |-> tmp.panic]
       IN IF r.panic THEN [bytes |-> << >>, err |-> "panic"]
          ELSE IF bigintIsNull(base) THEN [bytes |-> bigintReverse(BytesOf(base)), err |-> "nil"]
          ELSE IF sub.panic THEN [bytes |-> << >>, err |-> "panic"]
          ELSE [bytes |-> bigintReverse(BytesOf(sub.b)), err |-> "nil"]

\* The division with the remainder of a limb not carried into the next.
RECURSIVE DivRadixLimbwise(_, _, _)
DivRadixLimbwise(base, j, rem) ==
  IF j < 1 THEN [base |-> base, rem |-> rem]
  ELSE DivRadixLimbwise([base EXCEPT ![j] = base[j] \div TrinaryRadix], j - 1,
                        base[j] % TrinaryRadix)

\* base / 3 over the limbs j, j - 1, .. 1: [base, rem]
RECURSIVE DivRadix(_, _, _)
DivRadix(base, j, rem) ==
  IF j < 1 THEN [base |-> base, rem |-> rem]
  ELSE LET lhs == (rem * LimbBase) + base[j]
       IN DivRadix([base EXCEPT ![j] = lhs \div TrinaryRadix], j - 1, lhs % TrinaryRadix)

\* The loop of BytesToTrits from the 1-based trit i on.
RECURSIVE BigIntToTrits(_, _, _)
BigIntToTrits(base, t, i) ==
  IF i > HashTrinarySize - 1 THEN t
  ELSE LET d == DivRadix(base, IntLength, 0)
       IN BigIntToTrits(d.base, [t EXCEPT ![i] = d.rem - 1], i + 1)

\* BytesToTrits: [trits, err]; err "panic" for a run-time panic.
BytesToTrits(b) ==
  IF Len(b) # HashBytesSize
  THEN [trits |-> << >>, err |-> "ErrInvalidBytesLength"]
  ELSE LET base == LimbsOf(bigintReverse(b))
           t == [k \in 1 .. HashTrinarySize |-> 0]
           neg == bigintNot(base)
           offset ==
             IF base[IntLength] \div (LimbBase \div 2) = 0
             THEN LET r == bigintMustAdd(base, halfThree)
                  IN [b |-> r.b, panic |-> r.panic, flipTrits |-> FALSE]
             ELSE IF bigintMustCmp(neg, halfThree) = 1
             THEN LET r == bigintMustSub(neg, halfThree)
                  IN [b |-> r.b, panic |-> r.panic, flipTrits |-> TRUE]
             ELSE LET r == bigintMustSub(halfThree, bigintAddSmall(neg, 1).b)
                  IN [b |-> r.b, panic |-> r.panic, flipTrits |-> FALSE]
           digits == BigIntToTrits(offset.b, t, 1)
       IN IF bigintIsNull(base) THEN [trits |-> t, err |-> "nil"]
          ELSE IF offset.panic THEN [trits |-> << >>, err |-> "panic"]
          ELSE IF offset.flipTrits
          THEN [trits |-> [k \in 1 .. HashTrinarySize |-> 0 - digits[k]], err |-> "nil"]
          ELSE [trits |-> digits, err |-> "nil"]

\* The slices a conversion works on, each with the contents of its backing
\* array (<< >>: not allocated): the caller's trits and b, and the copies revT
\* and rb the conversions make.
NoSlices == [trits |-> << >>, revT |-> << >>, b |-> << >>, rb |-> << >>]

\* make([]T, n) bound to the name a; copy(dst, src).
make(mem, a, n) == [mem EXCEPT ![a] = [k \in 1 .. n |-> 0]]

copy(mem, dst, src) ==
  [mem EXCEPT ![dst] = [k \in 1 .. Len(mem[dst]) |->
                          IF k <= Len(mem[src]) THEN mem[src][k] ELSE mem[dst][k]]]

\* ReverseTrits(a[lo:hi]): the swaps are made in the backing array of a.
ReverseTrits(mem, a, lo, hi) ==
  [mem EXCEPT ![a] = [k \in 1 .. Len(mem[a]) |->
                        IF lo < k /\ k <= hi THEN mem[a][(lo + hi + 1) - k] ELSE mem[a][k]]]

\* bigint.Reverse(a), made in the backing array of a.
bigintReverseInPlace(mem, a) == [mem EXCEPT ![a] = bigintReverse(mem[a])]

\* TritsToBytes with revT := trits, a second name of the caller's slice.
TritsToBytesAliased(mem, trits) ==
  IF ~CanBeHash(mem[trits]) THEN mem
  ELSE IF \A k \in 1 .. (HashTrinarySize - 1) : mem[trits][k] = -1 THEN mem
  ELSE ReverseTrits(mem, trits, 0, HashTrinarySize - 1)

\* What TritsToBytes does to the slices: revT is made, filled from trits and
\* its first HashTrinarySize - 1 trits are reversed; the loop that follows
\* reads revT. The bytes are made in a slice of the function's own.
TritsToBytesSlices(mem, trits) ==
  IF ~CanBeHash(mem[trits]) THEN mem
  ELSE IF \A k \in 1 .. (HashTrinarySize - 1) : mem[trits][k] = -1 THEN mem
  ELSE ReverseTrits(copy(make(mem, "revT", Len(mem[trits])), "revT", trits),
                    "revT", 0, HashTrinarySize - 1)

\* What BytesToTrits does to the slices: rb is made, filled from b and
\* reversed; the arithmetic that follows is on base, the limbs of rb.
BytesToTritsSlices(mem, b) ==
  IF Len(mem[b]) # HashBytesSize THEN mem
  ELSE bigintReverseInPlace(copy(make(mem, "rb", Len(mem[b])), "rb", b), "rb")

FreeTrits == 3   \* the low trits of a hash input that take every value

\* Hashes: the low FreeTrits trits free, the trits above them all alike, the
\* highest trit of the number and the last trit of the hash free.
HashInputs ==
  { [k \in 1 .. HashTrinarySize |->
       IF k <= FreeTrits THEN low[k]
       ELSE IF k = HashTrinarySize THEN last
       ELSE IF k = HashTrinarySize - 1 THEN top
       ELSE fill] :
    low \in [1 .. FreeTrits -> {-1, 0, 1}], fill \in {-1, 0, 1},
    top \in {-1, 0, 1}, last \in {-1, 0, 1} }

\* Slices that are no hashes.
ShortInputs ==
  { << >>, << 1, 1 >>, [k \in 1 .. (HashTrinarySize - 1) |-> 0],
    [k \in 1 .. (HashTrinarySize + 1) |-> 0] }

\* Byte slices given to BytesToTrits directly.
ByteInputs ==
  { << >>, << 1, 45, 62 >>, [k \in 1 .. (HashBytesSize - 1) |-> 0],
    [k \in 1 .. (HashBytesSize + 1) |-> 0], [k \in 1 .. HashBytesSize |-> 0],
    [k \in 1 .. HashBytesSize |-> 255] }

\* A conversion of trits to bytes and back, or of bytes to trits; trits and
\* bytes record the values passed and returned, mem the slices themselves.
NewBytesConv(src, trits, bytes) ==
  [pc |-> IF src = "trits" THEN "hashIn" ELSE "bytesIn", src |-> src, trits |-> trits,
   bytes |-> bytes, err |-> "nil", back |-> << >>, backErr |-> "nil",
   mem |-> [NoSlices EXCEPT !.trits = trits, !.b = bytes]]

ConvTritsToBytes ==
  /\ conv.pc = "hashIn"
  /\ conv' = [conv EXCEPT !.pc = "bytesOut", !.bytes = TritsToBytes(conv.mem.trits).bytes,
                          !.err = TritsToBytes(conv.mem.trits).err,
                          !.mem = [TritsToBytesSlices(conv.mem, "trits") EXCEPT
                                     !.b = TritsToBytes(conv.mem.trits).bytes]]
  /\ UNCHANGED << numCPU, defaultProofOfWorkParallelism, proofOfWorkFuncs, syncGoProofOfWork,
                  call, workers, lookup, batch >>

ConvBytesToTrits ==
  /\ \/ conv.pc = "bytesOut" /\ conv.err = "nil"
     \/ conv.pc = "bytesIn"
  /\ conv' = [conv EXCEPT !.pc = "tritsBack", !.back = BytesToTrits(conv.mem.b).trits,
                          !.backErr = BytesToTrits(conv.mem.b).err,
                          !.mem = BytesToTritsSlices(conv.mem, "b")]
  /\ UNCHANGED << numCPU, defaultProofOfWorkParallelism, proofOfWorkFuncs, syncGoProofOfWork,
                  call, workers, lookup, batch >>

InitBytes ==
  /\ InitPackage({1})
  /\ call = [c \in Callers |-> NoCall]
  /\ lookup = NoLookup /\ batch = NoBatch
  /\ \/ \E trits \in HashInputs \cup ShortInputs : conv = NewBytesConv("trits", trits, << >>)
     \/ \E bytes \in ByteInputs : conv = NewBytesConv("bytes", << >>, bytes)

NextBytes == ConvTritsToBytes \/ ConvBytesToTrits

SpecBytes == InitBytes /\ [][NextBytes]_vars

(***************************************************************************)
(* pow: the S-box of transform64 on one pair of lanes.                     *)
(***************************************************************************)
\* The pairs of words that hold a trit in every bit position.
TritWords == { p \in [l : Words, h : Words] : Or(p.l, p.h) = hBits }

\* The lanes computed: the first two and the last of a round.
SBoxLanes == {0, 1, StateSize - 1}

\* A buffer of zero trits but for the lanes t1 and t2 of lane j, which hold a and b.
FromOf(a, b, j) ==
  [l |-> [k \in Lanes |-> IF k = Indices(j) THEN a.l
                          ELSE IF k = Indices(j + 1) THEN b.l ELSE hBits],
   h |-> [k \in Lanes |-> IF k = Indices(j) THEN a.h
                          ELSE IF k = Indices(j + 1) THEN b.h ELSE hBits]]

NewSBoxConv(a, b, j) ==
  [pc |-> "pair", a |-> a, b |-> b, j |-> j, out |-> [l |-> lBits, h |-> lBits]]

SBoxApply ==
  /\ conv.pc = "pair"
  /\ conv' = [conv EXCEPT !.pc = "out", !.out = SBox64(FromOf(conv.a, conv.b, conv.j), conv.j)]
  /\ UNCHANGED << numCPU, defaultProofOfWorkParallelism, proofOfWorkFuncs, syncGoProofOfWork,
                  call, workers, lookup, batch >>

InitSBox ==
  /\ InitPackage({1})
  /\ call = [c \in Callers |-> NoCall]
  /\ lookup = NoLookup /\ batch = NoBatch
  /\ \E a \in TritWords, b \in TritWords, j \in SBoxLanes : conv = NewSBoxConv(a, b, j)

NextSBox == SBoxApply

SpecSBox == InitSBox /\ [][NextSBox]_vars

(***************************************************************************)
(* Properties of one call (Spec).                                          *)
(***************************************************************************)
WorkersOf(c) == DOMAIN workers[c]

Finders(c) == { i \in WorkersOf(c) : workers[c][i].nonce # nil }

Senders(c) == { i \in WorkersOf(c) : workers[c][i].left = "sent" }

\* The call has handed its result back to the caller.
Returned(c) ==
  call[c].variant # "none" /\ call[c].pc \in {"returned", "done"} /\ call[c].err = "nil"

\* C1: in one call of goProofOfWork at most one goroutine's nonce is delivered:
\* the result channel is received from at most once, and exactly once by the
\* time the call returns; the value received is the nonce of the one goroutine
\* whose send was met, and every other goroutine that found a nonce and has
\* finished left through the closed exit channel.
C1_OneNonceDelivered ==
  \A c \in Callers :
    /\ call[c].received <= 1
    /\ Cardinality(Senders(c)) = call[c].received
    /\ Returned(c) => call[c].received = 1
    /\ \A i \in Senders(c) : call[c].result = MustTritsToTrytes(workers[c][i].nonce)
    /\ \A i \in Finders(c) \ Senders(c) :
         workers[c][i].pc = "done" => (workers[c][i].left = "exit" /\ call[c].exit = "closed")

\* A call has returned one goroutine's nonce and another finder has left
\* through the exit channel.
C1_Witness ==
  \E c \in Callers :
    /\ Returned(c)
    /\ \E i \in Senders(c), j \in Finders(c) :
         i # j /\ workers[c][j].pc = "done" /\ workers[c][j].left = "exit"

\* The trit a pair of words holds at bit position n (01: -1, 11: 0, 10: 1).
TritAt(st, j, n) ==
  IF Bit(st.l[j], n) = 1 /\ Bit(st.h[j], n) = 0 THEN -1
  ELSE IF Bit(st.l[j], n) = 0 /\ Bit(st.h[j], n) = 1 THEN 1
  ELSE 0

\* The nonce w holds is the nonce field of its state at bit position w.n, and
\* the transform of that state has the zero trit in the last m hash lanes at
\* that bit position.
MeetsDifficulty(w, m) ==
  LET cpy == transform64(w.st)
  IN /\ w.n \in BitPos
     /\ w.nonce = [k \in 1 .. NonceTrinarySize |-> TritAt(w.st, nonceOffset + (k - 1), w.n)]
     /\ \A j \in (HashTrinarySize - m) .. (HashTrinarySize - 1) :
          Bit(cpy.l[j], w.n) = 1 /\ Bit(cpy.h[j], w.n) = 1

\* C2: every nonce a call returns is the nonce field, read at bit position n
\* of the goroutine's un-transformed state, of a candidate whose transformed
\* copy has the zero trit at bit position n in all the hash lanes
\* [HashTrinarySize - mwm, HashTrinarySize).
C2_ReturnedNonceMeetsDifficulty ==
  \A c \in Callers :
    /\ \A i \in Senders(c) : MeetsDifficulty(workers[c][i], call[c].mwm)
    /\ Returned(c) =>
         \E i \in Senders(c) : call[c].nonce = MustTritsToTrytes(workers[c][i].nonce)

\* A call with a difficulty above zero has returned a nonce that its goroutine
\* found at a bit position other than the first.
C2_Witness ==
  \E c \in Callers :
    /\ Returned(c) /\ call[c].variant = "Go"
    /\ call[c].mwm > 0
    /\ call[c].nonce # nil
    /\ \E i \in Senders(c) : workers[c][i].n > 0

\* C3: two goroutines of one call never hash the same candidate (the value of
\* the nonce field together with the bit position).
C3_DisjointStripes ==
  \A c \in Callers : \A i, j \in WorkersOf(c) :
    i # j => workers[c][i].hashed \cap workers[c][j].hashed = {}

\* C4: a goroutine that read the flag as true at the poll of its loop has left
\* the loop with no nonce and is finished without a send on the result channel.
C4_CancelledWorkerLeaves ==
  \A c \in Callers : \A i \in WorkersOf(c) :
    workers[c][i].saw =>
      /\ workers[c][i].pc = "done"
      /\ workers[c][i].nonce = nil
      /\ workers[c][i].left = "nil"
      /\ i \notin Senders(c)

\* A goroutine has read the flag as true while its counter was not exhausted.
C4_Witness ==
  \E c \in Callers : \E i \in WorkersOf(c) :
    workers[c][i].saw /\ workers[c][i].pc = "done" /\ call[c].received = 1

\* The parallelism a call resolves to.
ResolvedParallelism(c) ==
  LET p == call[c].parallelism
  IN IF Len(p) > 0 /\ p[1] > 0 THEN p[1]
     ELSE IF numCPU - 1 > 1 THEN numCPU - 1 ELSE 1

\* The call is past the start of its goroutines.
Spawned(c) == call[c].pc \in {"recv", "close", "cancel"} \/ Returned(c)

\* C8: the goroutines a call starts are as many as the resolved parallelism: the
\* first parallelism argument if there is one above 0, else the default
\* max(1, NumCPU - 1) of init.
C8_WorkersEqualParallelism ==
  \A c \in Callers :
    Spawned(c) =>
      /\ WorkersOf(c) = 0 .. (ResolvedParallelism(c) - 1)
      /\ call[c].numGoroutines = ResolvedParallelism(c)

\* A call whose first argument is not above 0 has started the default number
\* of goroutines, on a machine where that is NumCPU - 1 and more than one.
C8_Witness ==
  \E c \in Callers :
    /\ Spawned(c)
    /\ Len(call[c].parallelism) > 0 /\ call[c].parallelism[1] <= 0
    /\ numCPU > 2
    /\ Cardinality(WorkersOf(c)) = numCPU - 1

(***************************************************************************)
(* Properties of concurrent callers (SpecSync).                            *)
(***************************************************************************)
\* The caller is between the Lock and the Unlock of SyncGoProofOfWork.
Holding(c) ==
  call[c].variant = "SyncGo" /\ call[c].pc \in {"entry", "recv", "close", "cancel", "returned"}

\* The caller of SyncGoProofOfWork is inside goProofOfWork.
InSearch(c) ==
  call[c].variant = "SyncGo" /\ call[c].pc \in {"entry", "recv", "close", "cancel"}

\* The call is over for its caller.
Finished(c) == call[c].variant # "none" /\ call[c].pc = "done"

\* C5: a call of GoProofOfWork or SyncGoProofOfWork with empty trytes comes
\* back with ErrInvalidTrytesForProofOfWork and an empty nonce; no goroutine,
\* flag or channel of the call ever exists; and once a call of
\* SyncGoProofOfWork is over, the mutex is not held by it.
C5_EmptyTrytesRejected ==
  \A c \in Callers :
    (call[c].variant # "none" /\ call[c].trytes = nil) =>
      /\ workers[c] = << >>
      /\ call[c].cancelled = "nil" /\ call[c].exit = "nil" /\ call[c].nonceChan = "nil"
      /\ call[c].pc \in {"returned", "done"} =>
           (call[c].err = "ErrInvalidTrytesForProofOfWork" /\ call[c].result = nil
              /\ call[c].nonce = nil)
      /\ Finished(c) => syncGoProofOfWork # c

\* Both a call of GoProofOfWork and one of SyncGoProofOfWork are over with the
\* error, and the mutex is free.
C5_Witness ==
  /\ syncGoProofOfWork = 0
  /\ \E c, d \in Callers :
       /\ call[c].variant = "Go" /\ call[d].variant = "SyncGo"
       /\ Finished(c) /\ Finished(d)
       /\ call[c].err = "ErrInvalidTrytesForProofOfWork"
       /\ call[d].err = "ErrInvalidTrytesForProofOfWork"

\* C6: of the concurrent callers of SyncGoProofOfWork at most one is inside
\* goProofOfWork, and the mutex is held only by a caller between its Lock and
\* its Unlock: a call that is over, with a nonce or with an error, has
\* released it.
C6_OneSearchAtATime ==
  /\ Cardinality({ c \in Callers : InSearch(c) }) <= 1
  /\ \A c \in Callers : Holding(c) <=> syncGoProofOfWork = c
  /\ \A c \in Callers : Finished(c) => syncGoProofOfWork # c

\* A caller is inside goProofOfWork after another call of SyncGoProofOfWork
\* is over with its nonce.
C6_Witness ==
  \E c, d \in Callers :
    /\ c # d /\ call[c].variant = "SyncGo"
    /\ Finished(c) /\ call[c].err = "nil" /\ call[c].nonce # nil
    /\ InSearch(d) /\ call[d].pc = "recv"

(***************************************************************************)
(* Properties of DoPoW and of the registry (SpecBatch).                    *)
(***************************************************************************)
\* The transactions DoPoW has been through: all of them once it has returned.
Processed == 1 .. batch.i

\* C7: DoPoW chains the transactions in the order it processes them: the one
\* at position 0 has the trunk and the branch of the arguments; every later
\* one has as trunk the hash of the one before it, taken with that one's
\* nonce set, and as branch the trunk of the arguments.
C7_BatchChained ==
  batch.pc \in {"loop", "done"} =>
    /\ \A k \in Processed :
         LET t == batch.txs[k].trytes
         IN IF k = 1
            THEN t.trunk = batch.trunkTx /\ t.branch = batch.branchTx
            ELSE /\ t.trunk = TransactionHash([trytes |-> batch.txs[k - 1].trytes])
                 /\ t.trunk = batch.txs[k - 1].hash
                 /\ t.branch = batch.trunkTx
    /\ (batch.pc = "done" /\ batch.err = "nil") =>
         (batch.i = Len(batch.trytes) /\ batch.out = [k \in Processed |-> batch.txs[k].trytes])

\* DoPoW has returned a batch of two or more transactions.
C7_Witness ==
  /\ batch.pc = "done" /\ batch.err = "nil"
  /\ Len(batch.out) >= 2
  /\ batch.out[2].trunk # batch.trunkTx
  /\ batch.out[1].nonce # 0

\* C9: the registry holds "Go" and "SyncGo" from init on and no call changes
\* it; GetProofOfWorkImpl gives the registered function and no error for these
\* names, and for every other name nil and an error that wraps
\* ErrUnknownProofOfWorkFunc.
C9_RegistryLookup ==
  /\ DOMAIN proofOfWorkFuncs = {"Go", "SyncGo"}
  /\ proofOfWorkFuncs["Go"] = "GoProofOfWork"
  /\ proofOfWorkFuncs["SyncGo"] = "SyncGoProofOfWork"
  /\ lookup.called =>
       IF lookup.name = "Go" THEN lookup.p = "GoProofOfWork" /\ lookup.err = NoError
       ELSE IF lookup.name = "SyncGo" THEN lookup.p = "SyncGoProofOfWork" /\ lookup.err = NoError
       ELSE lookup.p = "nil" /\ lookup.err.cause = "ErrUnknownProofOfWorkFunc"

\* A name that is not registered has been looked up.
C9_Witness ==
  lookup.called /\ lookup.name = "go" /\ lookup.p = "nil"

\* C16: a call with mwm = 0 returns a nonce. Every goroutine that has left
\* its loop either took the candidate of its first pass (check accepts bit 0
\* over the empty lane range) or read the flag set by one that did, and the
\* call is never left at its receive with every goroutine gone.
C16_ZeroDifficultyReturns ==
  \A c \in Callers :
    (call[c].variant = "Go" /\ call[c].trytes # nil /\ call[c].mwm = 0) =>
      /\ \A i \in WorkersOf(c) :
           /\ workers[c][i].left = "nil" => workers[c][i].saw
           /\ workers[c][i].nonce # nil =>
                (workers[c][i].n = 0 /\ workers[c][i].hashed = Candidates(workers[c][i].st))
      /\ ~(call[c].pc = "recv" /\ \A i \in WorkersOf(c) : workers[c][i].pc = "done")

\* No lane of the state has a bit position with neither L nor H set.
NoZeroPair(st) == \A j \in Lanes : Or(st.l[j], st.h[j]) = hBits

\* The seed constants at all their 64 bit positions.
SeedsHaveNoZeroPair ==
  \A p \in { << low0, high0 >>, << low1, high1 >>, << low2, high2 >>, << low3, high3 >> } :
    \A n \in 0 .. 63 : ConstBit(p[1], n) = 1 \/ ConstBit(p[2], n) = 1

\* C17: in every bit-sliced state of a goroutine (after para, the seeding of
\* the four nonce lanes, incrN and any number of incr steps) and in its scratch
\* copy after transform64, every lane has at least one of L, H set in every
\* bit position: the pair (0,0) never appears.
C17_NoZeroPair ==
  /\ SeedsHaveNoZeroPair
  /\ \A c \in Callers : \A i \in WorkersOf(c) :
       /\ workers[c][i].st # nil => NoZeroPair(workers[c][i].st)
       /\ workers[c][i].cpy # nil => NoZeroPair(workers[c][i].cpy)

\* A goroutine after incrN and several incr steps, with its transformed copy.
C17_Witness ==
  \E c \in Callers : \E i \in WorkersOf(c) :
    /\ i > 0
    /\ workers[c][i].cpy # nil
    /\ Cardinality(workers[c][i].hashed) > WordBits
    /\ \E j \in Lanes : workers[c][i].cpy.l[j] # workers[c][i].cpy.h[j]
    /\ \E j \in nonceOffset .. (nonceOffset + 3) :
         workers[c][i].st.l[j] # hBits /\ workers[c][i].st.l[j] # lBits

\* C18: a goroutine leaves its loop because of exhaustion only when the
\* increment carried out of the top lane of the nonce field, that is, when
\* lane HashTrinarySize - 1 has wrapped from +1 to -1.
C18_ExhaustionOnlyOnCarryOut ==
  \A c \in Callers : \A i \in WorkersOf(c) :
    (workers[c][i].pc = "done" /\ workers[c][i].left = "nil" /\ ~workers[c][i].saw) =>
      /\ workers[c][i].st.l[HashTrinarySize - 1] = hBits
      /\ workers[c][i].st.h[HashTrinarySize - 1] = lBits

\* The number 3^k.
RECURSIVE Pow3(_)
Pow3(k) == IF k = 0 THEN 1 ELSE 3 * Pow3(k - 1)

\* The balanced-ternary value the lanes [lo, hi) hold at bit position n.
RECURSIVE WindowValue(_, _, _, _)
WindowValue(st, lo, hi, n) ==
  IF lo >= hi THEN 0 ELSE TritAt(st, lo, n) + (3 * WindowValue(st, lo + 1, hi, n))

\* v + k in a window of len lanes: past the greatest value comes the least.
PlusInWindow(v, k, len) ==
  LET max == (Pow3(len) - 1) \div 2
  IN (((v + max) + k) % Pow3(len)) - max

\* The lanes of st and of to outside [lo, hi) are the same.
SameOutside(st, to, lo, hi) ==
  \A j \in Lanes : (j < lo \/ j >= hi) => (st.l[j] = to.l[j] /\ st.h[j] = to.h[j])

\* C20: one application of the counter to a window of lanes adds exactly 1 to
\* the balanced-ternary value the window holds in each bit position (the
\* greatest value is followed by the least) and leaves the lanes outside the
\* window as they were: every pass of a goroutine's loop does so on
\* [nonceInitStart, HashTrinarySize), and the start of goroutine i adds i on
\* [nonceInitStart, nonceIncrementStart) to what para made of the Curl state.
C20_CounterAddsOne ==
  [][\A c \in Callers : \A i \in WorkersOf(c) :
       /\ (workers[c][i].pc = "loop" /\ workers'[c][i] # workers[c][i]) =>
            /\ \A n \in BitPos :
                 WindowValue(workers'[c][i].st, nonceInitStart, HashTrinarySize, n)
                   = PlusInWindow(WindowValue(workers[c][i].st, nonceInitStart, HashTrinarySize, n),
                                  1, HashTrinarySize - nonceInitStart)
            /\ SameOutside(workers[c][i].st, workers'[c][i].st, nonceInitStart, HashTrinarySize)
       /\ (workers[c][i].pc = "init" /\ workers'[c][i].pc = "loop") =>
            /\ \A n \in BitPos :
                 WindowValue(workers'[c][i].st, nonceInitStart, nonceIncrementStart, n)
                   = PlusInWindow(WindowValue(para(call[c].state), nonceInitStart,
                                              nonceIncrementStart, n),
                                  i, nonceIncrementStart - nonceInitStart)
            /\ SameOutside(para(call[c].state), workers'[c][i].st,
                           nonceOffset, nonceIncrementStart)
     ]_vars

\* A goroutine other than the first has counted, with carries, to the end of
\* its counter.
C20_Witness ==
  \E c \in Callers : \E i \in WorkersOf(c) :
    /\ i > 0
    /\ workers[c][i].pc = "done" /\ workers[c][i].left = "nil" /\ ~workers[c][i].saw
    /\ Cardinality(workers[c][i].hashed) >= WordBits
    /\ \A n \in BitPos :
         WindowValue(workers[c][i].st, nonceInitStart, HashTrinarySize, n)
           = 0 - ((Pow3(HashTrinarySize - nonceInitStart) - 1) \div 2)

\* The seed pairs, in the order of their lanes.
SeedPairs == << << low0, high0 >>, << low1, high1 >>, << low2, high2 >>, << low3, high3 >> >>

\* The 64 bit positions of the seed constants hold pairwise different
\* prefixes of four trits.
SeedPrefixesDistinct ==
  \A n \in 0 .. 63 : \A m \in 0 .. 63 :
    n # m => \E k \in 1 .. 4 :
               \/ ConstBit(SeedPairs[k][1], n) # ConstBit(SeedPairs[k][1], m)
               \/ ConstBit(SeedPairs[k][2], n) # ConstBit(SeedPairs[k][2], m)

\* C21: the four seed lanes nonceOffset .. nonceOffset + 3 hold the constants,
\* whose bit positions encode pairwise distinct prefixes of four trits, in
\* every state of a goroutine (incrN and incr never change them), so the
\* nonces at the bit positions of a goroutine's state are pairwise distinct.
C21_SeedsGiveDistinctCandidates ==
  /\ SeedPrefixesDistinct
  /\ \A c \in Callers : \A i \in WorkersOf(c) :
       workers[c][i].st # nil =>
         /\ \A k \in 1 .. 4 :
              /\ workers[c][i].st.l[nonceOffset + (k - 1)] = Word(SeedPairs[k][1])
              /\ workers[c][i].st.h[nonceOffset + (k - 1)] = Word(SeedPairs[k][2])
         /\ \A n \in BitPos : \A m \in BitPos :
              n # m => seri(workers[c][i].st, n) # seri(workers[c][i].st, m)

\* A goroutine other than the first holds, after several passes, a nonce it
\* found at a bit position other than the first.
C21_Witness ==
  \E c \in Callers : \E i \in WorkersOf(c) :
    /\ i > 0
    /\ workers[c][i].pc \in {"select", "sent", "done"}
    /\ workers[c][i].n > 0
    /\ Cardinality(workers[c][i].hashed) > WordBits
    /\ workers[c][i].nonce = seri(workers[c][i].st, workers[c][i].n)

\* C22: a pass of a goroutine's loop changes the goroutine's own (L, H) state
\* by incr alone, the permutation being applied to the scratch copy only; no
\* other step of the goroutine changes that state; and when check accepts bit
\* position n of the permuted scratch, the nonce is the nonce field of the
\* un-permuted state of that pass at bit position n.
C22_PermutationOnScratchOnly ==
  [][\A c \in Callers : \A i \in WorkersOf(c) :
       /\ (workers[c][i].pc = "loop" /\ workers'[c][i] # workers[c][i]) =>
            /\ workers'[c][i].st = incr(workers[c][i].st).st
            /\ workers'[c][i].pc = "select" =>
                 /\ workers'[c][i].cpy = transform64(workers'[c][i].st)
                 /\ workers'[c][i].n = check(workers'[c][i].cpy, call[c].mwm)
                 /\ workers'[c][i].n >= 0
                 /\ workers'[c][i].nonce = seri(workers'[c][i].st, workers'[c][i].n)
       /\ (workers[c][i].pc \in {"select", "sent", "done"} /\ i \in DOMAIN workers'[c]) =>
            workers'[c][i].st = workers[c][i].st
     ]_vars

\* A goroutine has found a nonce at a bit position where the permuted scratch
\* holds another nonce field than its own state.
C22_Witness ==
  \E c \in Callers : \E i \in WorkersOf(c) :
    /\ workers[c][i].pc \in {"select", "sent"}
    /\ workers[c][i].n >= 0
    /\ workers[c][i].cpy = transform64(workers[c][i].st)
    /\ workers[c][i].cpy # workers[c][i].st
    /\ seri(workers[c][i].cpy, workers[c][i].n) # workers[c][i].nonce

\* C23: a call on non-empty trytes returns to its caller. No call is left at
\* its receive from nonceChan with every goroutine gone: in such a state no
\* step of the call or of its goroutines is possible any more, and the call
\* never returns, however its steps are scheduled.
C23_CallNeverStranded ==
  \A c \in Callers :
    (call[c].trytes # nil /\ call[c].pc = "recv" /\ WorkersOf(c) # {}) =>
      \E i \in WorkersOf(c) : workers[c][i].pc # "done"

\* C24: after the result of a call has been received every goroutine of the
\* call comes to its end: one waiting in its select leaves through the closed
\* exit channel, and one still searching reads the flag as true at its next
\* poll, that is, once the flag of the call has been set, a pass of a
\* goroutine's loop ends the goroutine (with no find and no further pass).
C24_NextPollEndsSearch ==
  [][\A c \in Callers : \A i \in WorkersOf(c) :
       (/\ call[c].received > 0
        /\ call[c].cancelled = TRUE
        /\ workers[c][i].pc = "loop"
        /\ workers'[c][i] # workers[c][i]) =>
         (workers'[c][i].pc = "done" /\ workers'[c][i].nonce = nil)
     ]_vars

\* C25: DoPoW calls pow once for each position, in order, up to the first
\* error: when pow has returned an error for the transaction at position i,
\* that call is the last one (no later transaction is passed to pow and the
\* failed one is not passed again), and DoPoW has returned that error with a
\* nil result.
C25_PowErrorEndsBatch ==
  /\ \A k \in 1 .. Len(batch.calls) : batch.calls[k].i = k - 1
  /\ \A k \in 1 .. Len(batch.calls) :
       batch.calls[k].err # "nil" =>
         /\ k = Len(batch.calls)
         /\ batch.pc = "done"
         /\ batch.err = batch.calls[k].err
         /\ batch.out = << >>

\* pow has failed on a transaction that has transactions after it in the
\* batch.
C25_Witness ==
  /\ batch.pc = "done"
  /\ Len(batch.calls) > 0
  /\ batch.calls[Len(batch.calls)].err # "nil"
  /\ Len(batch.calls) < Len(batch.txs)

(***************************************************************************)
(* Properties of the conversions (SpecTrinary).                            *)
(***************************************************************************)
\* C10: for every integer v of the width, TritsToInt(IntToTrits(v)) = v and
\* every element of IntToTrits(v) is a trit.
C10_IntRoundTrip ==
  /\ conv.pc \in {"trits", "back"} =>
       (~conv.panic /\ \A k \in DOMAIN conv.trits : ValidTrit(conv.trits[k]))
  /\ conv.pc = "back" => conv.back = conv.value

(***************************************************************************)
(* Properties of the tryte conversions (SpecTrytes).                       *)
(***************************************************************************)
ValidTritSlice(t) == \A k \in 1 .. Len(t) : ValidTrit(t[k])

\* C11, as stated: for every valid trit sequence t whose length is a multiple
\* of 3, TritsToTrytes(t) succeeds and TrytesToTrits of its result equals t.
C11_TryteRoundTripAnyLength ==
  (ValidTritSlice(conv.trits) /\ Len(conv.trits) % 3 = 0) =>
    /\ conv.pc \in {"trytesOut", "tritsBack"} => conv.err = "nil"
    /\ conv.pc = "tritsBack" => (conv.backErr = "nil" /\ conv.back = conv.trits)

\* C11, amended: for every valid trit sequence t that is not empty and whose
\* length is a multiple of 3, TritsToTrytes(t) succeeds and TrytesToTrits of
\* its result equals t.
C11_TryteRoundTrip ==
  (ValidTritSlice(conv.trits) /\ Len(conv.trits) > 0 /\ Len(conv.trits) % 3 = 0) =>
    /\ conv.pc \in {"trytesOut", "tritsBack"} => conv.err = "nil"
    /\ conv.pc = "tritsBack" => (conv.backErr = "nil" /\ conv.back = conv.trits)

\* Two trytes, one of them from a negative index, have gone there and back.
C11_Witness ==
  /\ conv.pc = "tritsBack"
  /\ ValidTritSlice(conv.trits)
  /\ Len(conv.trits) = 6
  /\ conv.trits[3] = -1 /\ conv.trits[6] = 1
  /\ conv.back = conv.trits

\* C15: TritsToTrytes returns an error for every input that holds an element
\* outside {-1, 0, 1}, whatever the length of the input; it never returns
\* trytes for such an input.
C15_InvalidTritsRejected ==
  (conv.pc \in {"trytesOut", "tritsBack"} /\ ~ValidTritSlice(conv.trits)) =>
    conv.err \in {"ErrInvalidTritsLength", "ErrInvalidTrit"}

(***************************************************************************)
(* Properties of the addition (SpecAdd).                                   *)
(***************************************************************************)
\* C12: for all integers a and b whose sum is an integer of the width,
\* TritsToInt(AddTrits(IntToTrits(a), IntToTrits(b))) = a + b.
C12_AddTritsIsSum ==
  (conv.a + conv.b >= MinInt /\ conv.a + conv.b <= MaxInt) =>
    /\ conv.pc \in {"trits", "sum", "back"} => ~conv.panic
    /\ conv.pc = "back" => conv.back = conv.a + conv.b

(***************************************************************************)
(* Properties of the hash as bytes (SpecBytes).                            *)
(***************************************************************************)
\* C13: for every valid hash h, BytesToTrits(TritsToBytes(h)) succeeds and
\* equals h with its last trit forced to 0; TritsToBytes fails with
\* ErrInvalidTritsLength for any input whose length is not HashTrinarySize and
\* BytesToTrits fails with ErrInvalidBytesLength for any input whose length is
\* not HashBytesSize.
C13_BytesRoundTrip ==
  /\ (conv.src = "trits" /\ conv.pc \in {"bytesOut", "tritsBack"}) =>
       IF Len(conv.trits) = HashTrinarySize
       THEN conv.err = "nil" /\ Len(conv.bytes) = HashBytesSize
       ELSE conv.err = "ErrInvalidTritsLength"
  /\ (conv.src = "trits" /\ conv.pc = "tritsBack") =>
       /\ conv.backErr = "nil"
       /\ conv.back = [conv.trits EXCEPT ![HashTrinarySize] = 0]
  /\ (conv.src = "bytes" /\ conv.pc = "tritsBack" /\ Len(conv.bytes) # HashBytesSize) =>
       conv.backErr = "ErrInvalidBytesLength"

\* A hash of a negative number, its last trit not zero, has gone there and back.
C13_Witness ==
  /\ conv.src = "trits" /\ conv.pc = "tritsBack"
  /\ Len(conv.trits) = HashTrinarySize
  /\ conv.trits[HashTrinarySize] = 1
  /\ conv.trits[HashTrinarySize - 1] = -1
  /\ conv.trits[1] = 1
  /\ conv.back[HashTrinarySize] = 0
  /\ conv.back[HashTrinarySize - 1] = -1

\* The sign of the number the first HashTrinarySize - 1 trits spell: that of
\* its highest trit that is not zero.
RECURSIVE SignFrom(_, _)
SignFrom(t, i) == IF i < 1 THEN 0 ELSE IF t[i] # 0 THEN t[i] ELSE SignFrom(t, i - 1)

\* The number the trits 1 .. i spell, modulo 2^16.
RECURSIVE LowBitsFrom(_, _, _)
LowBitsFrom(t, i, val) ==
  IF i < 1 THEN val ELSE LowBitsFrom(t, i - 1, ((val * 3) + t[i]) % 65536)

\* C14, as stated: for every hash, the most significant bit of the bytes of
\* TritsToBytes is 0.
C14_HighBitClear ==
  (conv.src = "trits" /\ conv.pc \in {"bytesOut", "tritsBack"}
     /\ Len(conv.trits) = HashTrinarySize) =>
    conv.bytes[1] < 128

\* C14, amended: the bytes of TritsToBytes are the sum of t[i]*3^i over the
\* first HashTrinarySize - 1 trits itself, in two's complement and big-endian:
\* the most significant bit is 0 exactly when the sum is not negative, and the
\* low 16 bits are those of the sum (not of the sum plus halfThree).
C14_BytesAreTheSum ==
  (conv.src = "trits" /\ conv.pc \in {"bytesOut", "tritsBack"}
     /\ Len(conv.trits) = HashTrinarySize) =>
    /\ conv.err = "nil"
    /\ (conv.bytes[1] < 128) <=> (SignFrom(conv.trits, HashTrinarySize - 1) >= 0)
    /\ (256 * conv.bytes[HashBytesSize - 1]) + conv.bytes[HashBytesSize]
         = LowBitsFrom(conv.trits, HashTrinarySize - 1, 0)

\* Bytes of a negative sum and bytes of a positive sum have been produced.
C14_Witness ==
  /\ conv.src = "trits" /\ conv.pc = "bytesOut"
  /\ Len(conv.trits) = HashTrinarySize
  /\ conv.trits[HashTrinarySize - 1] = -1
  /\ conv.trits[1] = 0
  /\ conv.bytes[1] >= 128

(***************************************************************************)
(* Properties of the S-box (SpecSBox).                                     *)
(***************************************************************************)
\* The trit of a pair of words at bit position n: -1 = (1,0), 0 = (1,1),
\* +1 = (0,1) as (L,H); 2 for the pair (0,0), which is no trit.
TritOf(p, n) ==
  IF Bit(p.l, n) = 1 /\ Bit(p.h, n) = 0 THEN -1
  ELSE IF Bit(p.l, n) = 1 /\ Bit(p.h, n) = 1 THEN 0
  ELSE IF Bit(p.l, n) = 0 /\ Bit(p.h, n) = 1 THEN 1
  ELSE 2

\* The table of the S-box: rows a = -1, 0, 1, columns b = -1, 0, 1.
TruthTable(a, b) ==
  << << 1, 1, -1 >>, << 0, -1, 1 >>, << -1, 0, 0 >> >>[a + 2][b + 2]

\* C19, as stated: the S-box of transform64 yields in every bit position the
\* encoding of f(a, b) = b - a clamped to {-1, 0, +1}.
C19_SBoxIsClampedDifference ==
  conv.pc = "out" =>
    \A n \in BitPos : TritOf(conv.out, n) = SBox(TritOf(conv.a, n), TritOf(conv.b, n))

\* C19, amended: the S-box of transform64 yields in every bit position the
\* encoding of the trit the table gives for (a, b): 1, 0, -1 for b = -1,
\* 1, -1, 0 for b = 0 and -1, 1, 0 for b = 1, as a is -1, 0, 1.
C19_SBoxIsTruthTable ==
  conv.pc = "out" =>
    \A n \in BitPos : TritOf(conv.out, n) = TruthTable(TritOf(conv.a, n), TritOf(conv.b, n))

\* The S-box has been applied to words whose bit positions hold different pairs.
C19_Witness ==
  /\ conv.pc = "out"
  /\ TritOf(conv.a, 0) = -1 /\ TritOf(conv.b, 0) = -1 /\ TritOf(conv.out, 0) = 1
  /\ TritOf(conv.a, 1) = 0 /\ TritOf(conv.b, 1) = 1 /\ TritOf(conv.out, 1) = 1
  /\ conv.j = StateSize - 1

(***************************************************************************)
(* The slices of the conversions between trits and bytes (SpecBytes).       *)
(***************************************************************************)
\* C26: TritsToBytes leaves the caller's trit slice as it was and BytesToTrits
\* leaves the caller's byte slice as it was, on a length error as well as on
\* success; the reversals are made in the copies revT and rb, which then hold
\* the reversed trits (all but the last) and the reversed bytes.
C26_CallerSlicesUnchanged ==
  /\ (conv.src = "trits" /\ conv.pc \in {"bytesOut", "tritsBack"}) =>
       conv.mem.trits = conv.trits
  /\ conv.pc = "tritsBack" => conv.mem.b = conv.bytes
  /\ (conv.pc \in {"bytesOut", "tritsBack"} /\ conv.mem.revT # << >>) =>
       conv.mem.revT = [k \in 1 .. HashTrinarySize |->
                          IF k < HashTrinarySize THEN conv.trits[HashTrinarySize - k]
                          ELSE conv.trits[k]]
  /\ (conv.pc = "tritsBack" /\ conv.mem.rb # << >>) =>
       conv.mem.rb = [k \in 1 .. HashBytesSize |-> conv.bytes[(HashBytesSize + 1) - k]]

\* Trits that are not their own reversal have been converted to bytes that
\* are not their own reversal, and these back to trits.
C26_Witness ==
  /\ conv.src = "trits" /\ conv.pc = "tritsBack"
  /\ conv.mem.revT # << >> /\ conv.mem.revT # conv.trits
  /\ conv.mem.rb # << >> /\ conv.mem.rb # conv.bytes
  /\ conv.mem.trits = conv.trits /\ conv.mem.b = conv.bytes

====
